---- MODULE Spec2Model ----
(***************************************************************************)
(* Training analytics of pbRun: the ingest-time VDOT calculator, the       *)
(* query-time heart-rate-zone and VDOT-trend rollups, and the routing      *)
(* between the precomputed cache tables and live aggregation.              *)
(*                                                                         *)
(* Representation of values                                                *)
(*  - an instant is [day |-> days since 1970-01-01, sec |-> second of the  *)
(*    UTC day]; the code works in milliseconds, the model in seconds;      *)
(*  - a string made of fixed-width, zero-padded fields is the sequence of  *)
(*    its fields, so that comparing two strings character by character is  *)
(*    comparing the sequences field by field, a proper prefix being the    *)
(*    smaller: the date "2026-01-03" is <<2026, 1, 3>>, the timestamp      *)
(*    "2026-01-03T12:00:00.000Z" is <<2026, 1, 3, 43200>>, the month key   *)
(*    "2026-01" is <<2026, 1>> and the week key "2026-W02" is              *)
(*    <<2026, 100 + 2>> ('W' sorts after every digit);                     *)
(*  - a nullable number is <<>> (null / undefined) or <<v>>;               *)
(*  - a real number that must be exact is a fraction <<num, den>>, den > 0,*)
(*    in lowest terms.                                                     *)
(***************************************************************************)
EXTENDS Integers, Sequences, FiniteSets, TLC

VARIABLES
    now,         \* the wall clock, as the UTC day number of `new Date()`
    activities,  \* table activities: the set of its rows
    hrCache,     \* table hr_zone_stats_cache: the set of its rows
    vdotCache,   \* table vdot_trend_cache: the set of its rows
    dbFile,      \* whether the SQLite file exists at DB_PATH
    cacheTables, \* whether the two cache tables exist in the file
    last,        \* the last query served: its parameters and what it returned
    call,        \* the last pure-function call: its arguments and results
    laps,        \* table activity_laps: the set of its rows
    lapRowid,    \* sqlite_sequence of activity_laps: the largest id ever given
    fitCache,    \* the activity ids that have a file in .cache/fit
    downloads,   \* the activity ids of the successful FIT downloads, in order
    run          \* the sync run in progress: the activities still to process

vars == <<now, activities, hrCache, vdotCache, dbFile, cacheTables, last, call,
          laps, lapRowid, fitCache, downloads, run>>

----------------------------------------------------------------------------
(* Nullable numbers and JavaScript truthiness *)

Null == <<>>

Some(v) == <<v>>

\* `x` used as a condition: null, undefined and 0 are falsy
Truthy(x) == x # Null /\ x[1] # 0

\* `x || 0`
OrZero(x) == IF Truthy(x) THEN x[1] ELSE 0

----------------------------------------------------------------------------
(* Exact fractions *)

Abs(n) == IF n < 0 THEN -n ELSE n

RECURSIVE Gcd(_, _)
Gcd(a, b) == IF b = 0 THEN a ELSE Gcd(b, a % b)

Frac(n, d) ==
    LET g == Gcd(Abs(n), d)
    IN  IF g = 0 THEN <<0, 1>> ELSE <<n \div g, d \div g>>

\* ceil(n / d) for d > 0
CeilDiv(n, d) == -((-n) \div d)

----------------------------------------------------------------------------
(* Strings as field sequences *)

RECURSIVE StrLess(_, _)
StrLess(a, b) ==
    IF a = <<>> THEN b # <<>>
    ELSE IF b = <<>> THEN FALSE
    ELSE IF Head(a) # Head(b) THEN Head(a) < Head(b)
    ELSE StrLess(Tail(a), Tail(b))

StrLeq(a, b) == a = b \/ StrLess(a, b)

----------------------------------------------------------------------------
(* The Date object: proleptic Gregorian calendar in UTC *)

SecPerDay == 86400

\* Date.UTC(year, month - 1, dom), in days
DateUTC(year, month, dom) ==
    LET y   == IF month <= 2 THEN year - 1 ELSE year
        era == y \div 400
        yoe == y - era * 400
        mp  == IF month > 2 THEN month - 3 ELSE month + 9
        doy == (153 * mp + 2) \div 5 + dom - 1
        doe == yoe * 365 + yoe \div 4 - yoe \div 100 + doy
    IN  era * 146097 + doe - 719468

\* <<getUTCFullYear(), getUTCMonth() + 1, getUTCDate()>> of a day number
Civil(day) ==
    LET z   == day + 719468
        era == z \div 146097
        doe == z - era * 146097
        yoe == (doe - doe \div 1460 + doe \div 36524 - doe \div 146096) \div 365
        doy == doe - (365 * yoe + yoe \div 4 - yoe \div 100)
        mp  == (5 * doy + 2) \div 153
        dom == doy - (153 * mp + 2) \div 5 + 1
        m   == IF mp < 10 THEN mp + 3 ELSE mp - 9
        y   == yoe + era * 400 + (IF m <= 2 THEN 1 ELSE 0)
    IN  <<y, m, dom>>

\* getUTCDay(): 0 = Sunday; 1970-01-01 was a Thursday
getUTCDay(day) == (day + 4) % 7

\* new Date(str) for "YYYY-MM-DD" and for "YYYY-MM-DDThh:mm:ss.sssZ"
ParseDate(str) ==
    [day |-> DateUTC(str[1], str[2], str[3]),
     sec |-> IF Len(str) >= 4 THEN str[4] ELSE 0]

\* toISOString() of an instant
toISOString(t) == Civil(t.day) \o <<t.sec>>

\* toISOString().split('T')[0]
IsoDate(day) == Civil(day)

----------------------------------------------------------------------------
(* PeriodKeyer *)

GroupBys == {"week", "month"}

\* `${year}-${month}` with the month padded to two digits
MonthKey(year, month) == <<year, month>>

\* `${year}-W${weekNo}` with the week number padded to two digits
WeekKey(year, weekNo) == <<year, 100 + weekNo>>

\* getPeriodFromDate: the helper that bounds the cache queries
getPeriodFromDate(dateStr, groupBy) ==
    LET date == ParseDate(dateStr)
        year == Civil(date.day)[1]
    IN  IF groupBy = "month"
        THEN MonthKey(year, Civil(date.day)[2])
        ELSE LET startOfYear == DateUTC(year, 1, 1)
                 \* Math.floor((date.getTime() - startOfYear.getTime()) / 86400000)
                 daysSinceStartOfYear ==
                     ((date.day - startOfYear) * SecPerDay + date.sec) \div SecPerDay
                 weekNo == CeilDiv(daysSinceStartOfYear + getUTCDay(startOfYear) + 1, 7)
             IN  WeekKey(year, weekNo)

\* getPeriod: the closure of getHrZoneStatsRealtime and of getVDOTTrendRealtime
getPeriod(dateStr, groupBy) ==
    LET date == ParseDate(dateStr)
        year == Civil(date.day)[1]
    IN  IF groupBy = "month"
        THEN MonthKey(year, Civil(date.day)[2])
        ELSE LET startOfYear == DateUTC(year, 1, 1)
                 \* (date.getTime() - startOfYear.getTime()) / 86400000 is not floored:
                 \* ceil((elapsed / 86400 + weekday + 1) / 7)
                 elapsed == (date.day - startOfYear) * SecPerDay + date.sec
                 weekNo  == CeilDiv(elapsed + (getUTCDay(startOfYear) + 1) * SecPerDay,
                                    7 * SecPerDay)
             IN  WeekKey(year, weekNo)

----------------------------------------------------------------------------
(* ZoneClassifier *)

\* process.env.MAX_HR ? parseInt(process.env.MAX_HR) : 190
MAX_HR == 190

\* hrPercent < bound, where hrPercent = (avgHr / maxHr) * 100 and maxHr > 0
PercentBelow(avgHr, maxHr, bound) == 100 * avgHr < bound * maxHr

\* VDOTCalculator.getHrZone, the ingest-time classifier
VDOTCalculator_getHrZone(avgHr, maxHr) ==
    IF avgHr <= 0 THEN 0
    ELSE IF PercentBelow(avgHr, maxHr, 70) THEN 1
    ELSE IF PercentBelow(avgHr, maxHr, 80) THEN 2
    ELSE IF PercentBelow(avgHr, maxHr, 87) THEN 3
    ELSE IF PercentBelow(avgHr, maxHr, 93) THEN 4
    ELSE 5

\* a classifier whose third boundary is inclusive
getHrZone_inclusive87(avgHr, maxHr) ==
    IF avgHr <= 0 THEN 0
    ELSE IF PercentBelow(avgHr, maxHr, 70) THEN 1
    ELSE IF PercentBelow(avgHr, maxHr, 80) THEN 2
    ELSE IF 100 * avgHr <= 87 * maxHr THEN 3
    ELSE IF PercentBelow(avgHr, maxHr, 93) THEN 4
    ELSE 5

\* getHrZone, the query-time classifier (closure of getHrZoneStatsRealtime)
getHrZone(avgHr, maxHr) ==
    IF avgHr <= 0 THEN 0
    ELSE IF PercentBelow(avgHr, maxHr, 70) THEN 1
    ELSE IF PercentBelow(avgHr, maxHr, 80) THEN 2
    ELSE IF PercentBelow(avgHr, maxHr, 87) THEN 3
    ELSE IF PercentBelow(avgHr, maxHr, 93) THEN 4
    ELSE 5

----------------------------------------------------------------------------
(* FitnessEstimator, in fixed point: velocities in 0.01 m/min, VO2 and VDOT  *)
(* in thousandths, %VO2max and exponentials in ten-thousandths.              *)

\* 10000 * e^(-n) for a natural number n
RECURSIVE ExpNegInt(_)
ExpNegInt(n) == IF n = 0 THEN 10000 ELSE (ExpNegInt(n - 1) * 3679) \div 10000

\* the terms k.. of the Taylor series of 10000 * e^(-f / 10000), 0 <= f < 10000
RECURSIVE ExpTaylor(_, _, _)
ExpTaylor(f, k, term) ==
    IF k > 8 THEN 0
    ELSE term + ExpTaylor(f, k + 1, (-(term * f)) \div (k * 10000))

\* 10000 * Math.exp(-x / 10000) for x >= 0
ExpNeg(x) ==
    (ExpNegInt(x \div 10000) * ExpTaylor(x % 10000, 1, 10000)) \div 10000

\* velocityMPerMin = distanceMeters / (durationSeconds / 60), in 0.01 m/min
VelocityMPerMin(distanceMeters, durationSeconds) ==
    (distanceMeters * 6000) \div durationSeconds

\* vo2 = -4.60 + 0.182258 * v + 0.000104 * v^2, in thousandths
Vo2(v100) ==
    -4600 + ((18226 * v100) \div 10000)
          + (((((v100 \div 10) * (v100 \div 10)) \div 100) * 104) \div 1000)

\* percentVo2max = 0.8 + 0.1894393 e^(-0.012778 t) + 0.2989558 e^(-0.1932605 t),
\* t = durationSeconds / 60, in ten-thousandths
PercentVo2max(durationSeconds) ==
    8000 + ((1894 * ExpNeg((12778 * durationSeconds) \div 6000)) \div 10000)
         + ((2990 * ExpNeg((19326 * durationSeconds) \div 600)) \div 10000)

\* zoneMultipliers[hrZone] || 1.0, in hundredths
ZoneMultiplier(hrZone) ==
    IF hrZone = 1 THEN 97 ELSE IF hrZone = 2 THEN 99 ELSE 100

\* vdot after the optional heart-rate adjustment, in thousandths
AdjustedVdot(distanceMeters, durationSeconds, avgHr, maxHr) ==
    LET vdot == (Vo2(VelocityMPerMin(distanceMeters, durationSeconds)) * 10000)
                    \div PercentVo2max(durationSeconds)
    IN  IF Truthy(avgHr) /\ avgHr[1] > 0
        THEN (vdot * ZoneMultiplier(VDOTCalculator_getHrZone(avgHr[1], maxHr))) \div 100
        ELSE vdot

\* Math.round(vdot * 10) / 10, in thousandths
RoundOneDecimal(vdot) == ((vdot + 50) \div 100) * 100

\* the calculator with negative inputs folded to their absolute value and only
\* zero rejected
calculateVdotFromPace_abs(distanceMeters, durationSeconds, avgHr, maxHr) ==
    IF durationSeconds = 0 \/ distanceMeters = 0 THEN Null
    ELSE IF PercentVo2max(Abs(durationSeconds)) <= 0
            \/ PercentVo2max(Abs(durationSeconds)) > 10000 THEN Null
    ELSE LET vdot == AdjustedVdot(Abs(distanceMeters), Abs(durationSeconds), avgHr, maxHr)
         IN  IF vdot < 20000 \/ vdot > 100000 THEN Null
             ELSE Some(RoundOneDecimal(vdot))

\* the calculator without the upper sanity bound and without rounding
calculateVdotFromPace_raw(distanceMeters, durationSeconds, avgHr, maxHr) ==
    IF durationSeconds <= 0 \/ distanceMeters <= 0 THEN Null
    ELSE IF VelocityMPerMin(distanceMeters, durationSeconds) <= 0 THEN Null
    ELSE IF PercentVo2max(durationSeconds) <= 0
            \/ PercentVo2max(durationSeconds) > 10000 THEN Null
    ELSE LET vdot == AdjustedVdot(distanceMeters, durationSeconds, avgHr, maxHr)
         IN  IF vdot < 20000 THEN Null ELSE Some(vdot)

\* VDOTCalculator.calculateVdotFromPace; the result is null or the VDOT in
\* thousandths
calculateVdotFromPace(distanceMeters, durationSeconds, avgHr, maxHr) ==
    IF durationSeconds <= 0 \/ distanceMeters <= 0 THEN Null
    ELSE IF VelocityMPerMin(distanceMeters, durationSeconds) <= 0 THEN Null
    ELSE IF PercentVo2max(durationSeconds) <= 0
            \/ PercentVo2max(durationSeconds) > 10000 THEN Null
    ELSE LET vdot == AdjustedVdot(distanceMeters, durationSeconds, avgHr, maxHr)
         IN  IF vdot < 20000 \/ vdot > 100000 THEN Null
             ELSE Some(RoundOneDecimal(vdot))

----------------------------------------------------------------------------
(* The activities table and live aggregation (ZoneAggregator) *)

\* ORDER BY start_time; rows of equal start_time come in rowid order, and
\* activity_id is the rowid
ActBefore(a, b) ==
    \/ StrLess(a.start_time, b.start_time)
    \/ a.start_time = b.start_time /\ a.activity_id < b.activity_id

RECURSIVE OrderByStartTime(_)
OrderByStartTime(S) ==
    IF S = {} THEN <<>>
    ELSE LET first == CHOOSE a \in S : \A b \in S \ {a} : ActBefore(a, b)
         IN  <<first>> \o OrderByStartTime(S \ {first})

\* AND start_time >= ? AND start_time <= ?, each only for a non-empty
\* parameter; the strings are compared byte by byte
InDateFilter(a, startDate, endDate) ==
    /\ startDate = <<>> \/ StrLeq(startDate, a.start_time)
    /\ endDate = <<>> \/ StrLeq(a.start_time, endDate)

\* a mean update that takes a sample of 0 as a valid sample
UpdateMean_zeroCounts(avg, sample, n) ==
    LET prev == IF Truthy(avg) THEN avg ELSE <<0, 1>>
    IN  IF sample # Null
        THEN Frac(prev[1] * (n - 1) + sample[1] * prev[2], prev[2] * n)
        ELSE avg

\* sample ? (prev * (n - 1) + sample) / n : prev || null, where prev is
\* `stat.avg || 0` and n the activity_count after counting the activity
UpdateMean(avg, sample, n) ==
    LET prev == IF Truthy(avg) THEN avg ELSE <<0, 1>>
    IN  IF Truthy(sample)
        THEN Frac(prev[1] * (n - 1) + sample[1] * prev[2], prev[2] * n)
        ELSE IF Truthy(avg) THEN avg ELSE Null

\* the rollup created by statsMap.set(key, {...})
NewHrZoneStat(period, groupBy, hrZone) ==
    [period |-> period, period_type |-> groupBy, hr_zone |-> hrZone,
     activity_count |-> 0, total_duration |-> 0, total_distance |-> 0,
     avg_pace |-> Null, avg_cadence |-> Null, avg_stride_length |-> Null,
     avg_heart_rate |-> Null]

\* one activity folded into its rollup
FoldedHrZoneStat(stat, activity) ==
    LET n == stat.activity_count + 1
    IN  [stat EXCEPT
            !.activity_count = n,
            !.total_duration = @ + OrZero(activity.duration),
            !.total_distance = @ + OrZero(activity.distance),
            !.avg_pace = UpdateMean(@, activity.average_pace, n),
            !.avg_cadence = UpdateMean(@, activity.average_cadence, n),
            !.avg_stride_length = UpdateMean(@, activity.average_stride_length, n),
            !.avg_heart_rate = UpdateMean(@, activity.average_heart_rate, n)]

\* a fold that also counts the activities without a usable heart rate, in the
\* zone that getHrZone gives them
RECURSIVE FoldHrZones_countAll(_, _, _)
FoldHrZones_countAll(items, statsMap, maxHr) ==
    IF items = <<>> THEN statsMap
    ELSE LET activity == Head(items).activity
             hr     == OrZero(activity.average_heart_rate)
             hrZone == IF hr <= 0 THEN 1 ELSE getHrZone(hr, maxHr)
             had == {s \in statsMap : s.period = Head(items).period /\ s.hr_zone = hrZone}
             stat == IF had = {}
                     THEN NewHrZoneStat(Head(items).period, Head(items).period_type, hrZone)
                     ELSE CHOOSE s \in had : TRUE
         IN  FoldHrZones_countAll(Tail(items),
                 (statsMap \ had) \cup {FoldedHrZoneStat(stat, activity)}, maxHr)

\* a fold that opens a new rollup for every activity
RECURSIVE FoldHrZones_noMerge(_, _, _)
FoldHrZones_noMerge(items, statsMap, maxHr) ==
    IF items = <<>> THEN statsMap
    ELSE LET activity == Head(items).activity
             hrZone == getHrZone(OrZero(activity.average_heart_rate), maxHr)
         IN  IF ~Truthy(activity.average_heart_rate) \/ hrZone = 0
             THEN FoldHrZones_noMerge(Tail(items), statsMap, maxHr)
             ELSE FoldHrZones_noMerge(Tail(items),
                      statsMap \cup {FoldedHrZoneStat(
                          NewHrZoneStat(Head(items).period, Head(items).period_type, hrZone),
                          activity)}, maxHr)

\* the loop `for (const activity of activities)` of getHrZoneStatsRealtime over
\* the activities paired with their period key; statsMap is the set of its values
RECURSIVE FoldHrZones(_, _, _)
FoldHrZones(items, statsMap, maxHr) ==
    IF items = <<>> THEN statsMap
    ELSE LET activity == Head(items).activity
             hrZone == getHrZone(OrZero(activity.average_heart_rate), maxHr)
             had == {s \in statsMap : s.period = Head(items).period /\ s.hr_zone = hrZone}
             stat == IF had = {}
                     THEN NewHrZoneStat(Head(items).period, Head(items).period_type, hrZone)
                     ELSE CHOOSE s \in had : TRUE
         IN  IF ~Truthy(activity.average_heart_rate) \/ hrZone = 0
             THEN FoldHrZones(Tail(items), statsMap, maxHr)
             ELSE FoldHrZones(Tail(items),
                      (statsMap \ had) \cup {FoldedHrZoneStat(stat, activity)}, maxHr)

\* a.period !== b.period ? a.period.localeCompare(b.period) : a.hr_zone - b.hr_zone
HrZoneStatBefore(a, b) ==
    IF a.period # b.period THEN StrLess(a.period, b.period) ELSE a.hr_zone < b.hr_zone

\* a.period.localeCompare(b.period)
TrendBefore(a, b) == StrLess(a.period, b.period)

\* Array.prototype.sort is stable: a row goes behind the rows that are not
\* after it
RECURSIVE InsertHrZoneStat(_, _)
InsertHrZoneStat(sorted, row) ==
    IF sorted = <<>> THEN <<row>>
    ELSE IF HrZoneStatBefore(row, Head(sorted)) THEN <<row>> \o sorted
    ELSE <<Head(sorted)>> \o InsertHrZoneStat(Tail(sorted), row)

RECURSIVE SortHrZoneStats(_)
SortHrZoneStats(rows) ==
    IF rows = <<>> THEN <<>>
    ELSE InsertHrZoneStat(SortHrZoneStats(SubSeq(rows, 1, Len(rows) - 1)), rows[Len(rows)])

RECURSIVE InsertTrend(_, _)
InsertTrend(sorted, row) ==
    IF sorted = <<>> THEN <<row>>
    ELSE IF TrendBefore(row, Head(sorted)) THEN <<row>> \o sorted
    ELSE <<Head(sorted)>> \o InsertTrend(Tail(sorted), row)

RECURSIVE SortTrend(_)
SortTrend(rows) ==
    IF rows = <<>> THEN <<>>
    ELSE InsertTrend(SortTrend(SubSeq(rows, 1, Len(rows) - 1)), rows[Len(rows)])

\* the rows of a table or of a Map in some order
RECURSIVE Enumerate(_)
Enumerate(S) ==
    IF S = {} THEN <<>>
    ELSE LET x == CHOOSE y \in S : TRUE IN <<x>> \o Enumerate(S \ {x})

\* a function's outcome: it threw, or it returned rows
Threw == [threw |-> TRUE, rows |-> <<>>]

Returned(rows) == [threw |-> FALSE, rows |-> rows]

\* getDatabase throws when the database file does not exist
getDatabase == dbFile

\* getHrZoneStatsRealtime
getHrZoneStatsRealtime(params) ==
    IF ~getDatabase THEN Threw
    ELSE LET selected == {a \in activities :
                 /\ a.average_heart_rate # Null
                 /\ InDateFilter(a, params.startDate, params.endDate)}
             ordered == OrderByStartTime(selected)
             items == [i \in 1 .. Len(ordered) |->
                 [period |-> getPeriod(ordered[i].start_time, params.groupBy),
                  period_type |-> params.groupBy,
                  activity |-> ordered[i]]]
         IN  Returned(SortHrZoneStats(Enumerate(FoldHrZones(items, {}, MAX_HR))))

\* the rollup created by trendsMap.set(period, {...})
NewTrendPoint(period, groupBy) ==
    [period |-> period, period_type |-> groupBy, avg_vdot |-> <<0, 1>>,
     max_vdot |-> Null, min_vdot |-> Null, activity_count |-> 0,
     total_distance |-> 0, total_duration |-> 0]

\* one activity folded into its trend point; activities.distance is in
\* kilometres and total_distance in metres
FoldedTrendPoint(trend, activity) ==
    LET n    == trend.activity_count + 1
        vdot == activity.vdot_value[1]
    IN  [trend EXCEPT
            !.activity_count = n,
            !.total_distance = @ + OrZero(activity.distance) * 1000,
            !.total_duration = @ + OrZero(activity.duration),
            !.avg_vdot = Frac(@[1] * (n - 1) + vdot * @[2], @[2] * n),
            !.max_vdot = IF @ = Null \/ @[1] < vdot THEN Some(vdot) ELSE @,
            !.min_vdot = IF @ = Null \/ @[1] > vdot THEN Some(vdot) ELSE @]

\* the loop of getVDOTTrendRealtime
RECURSIVE FoldTrend(_, _)
FoldTrend(items, trendsMap) ==
    IF items = <<>> THEN trendsMap
    ELSE LET had == {t \in trendsMap : t.period = Head(items).period}
             trend == IF had = {}
                      THEN NewTrendPoint(Head(items).period, Head(items).period_type)
                      ELSE CHOOSE t \in had : TRUE
         IN  FoldTrend(Tail(items),
                 (trendsMap \ had) \cup {FoldedTrendPoint(trend, Head(items).activity)})

\* getVDOTTrendRealtime
getVDOTTrendRealtime(params) ==
    IF ~getDatabase THEN Threw
    ELSE LET selected == {a \in activities :
                 /\ a.vdot_value # Null
                 /\ InDateFilter(a, params.startDate, params.endDate)}
             ordered == OrderByStartTime(selected)
             items == [i \in 1 .. Len(ordered) |->
                 [period |-> getPeriod(ordered[i].start_time, params.groupBy),
                  period_type |-> params.groupBy,
                  activity |-> ordered[i]]]
         IN  Returned(SortTrend(Enumerate(FoldTrend(items, {}))))

----------------------------------------------------------------------------
(* The precomputed cache tables and the HybridResolver *)

\* freshThreshold.setDate(now.getDate() - 7)
FreshDays == 7

\* freshThreshold.toISOString().split('T')[0]; the server clock has no
\* daylight-saving shift within the seven days
FreshDate(nowDay) == IsoDate(nowDay - FreshDays)

\* WHERE period_type = ? AND period >= ? AND period <= ?, the bounds being the
\* period keys of the dates and each present only for a non-empty parameter
InPeriodFilter(row, params) ==
    /\ row.period_type = params.groupBy
    /\ \/ params.startDate = <<>>
       \/ StrLeq(getPeriodFromDate(params.startDate, params.groupBy), row.period)
    /\ \/ params.endDate = <<>>
       \/ StrLeq(row.period, getPeriodFromDate(params.endDate, params.groupBy))

\* getHrZoneStatsFromCache: prepare() throws when the table does not exist
getHrZoneStatsFromCache(params) ==
    IF ~getDatabase \/ ~cacheTables THEN Threw
    ELSE Returned(SortHrZoneStats(Enumerate({r \in hrCache : InPeriodFilter(r, params)})))

\* getVDOTTrendFromCache; the cache holds kilometres, the response metres
getVDOTTrendFromCache(params) ==
    IF ~getDatabase \/ ~cacheTables THEN Threw
    ELSE LET rows == SortTrend(Enumerate({r \in vdotCache : InPeriodFilter(r, params)}))
         IN  Returned([i \in 1 .. Len(rows) |->
                 [rows[i] EXCEPT !.total_distance = @ * 1000]])

\* a merge that forgets to sort
mergeHrZoneStats_concat(cached, realtime) == cached \o realtime

\* mergeHrZoneStats
mergeHrZoneStats(cached, realtime) == SortHrZoneStats(cached \o realtime)

\* mergeVDOTTrend
mergeVDOTTrend(cached, realtime) == SortTrend(cached \o realtime)

\* routing with a threshold of 8 days
HrZoneRoute_eightDays(params, nowDay) ==
    IF params.endDate # <<>> /\ StrLess(params.endDate, IsoDate(nowDay - 8)) THEN "cache"
    ELSE IF params.startDate # <<>> /\ StrLeq(IsoDate(nowDay - 8), params.startDate)
    THEN "realtime"
    ELSE "hybrid"

\* routing with the start date compared strictly
HrZoneRoute_strictStart(params, nowDay) ==
    IF params.endDate # <<>> /\ StrLess(params.endDate, FreshDate(nowDay)) THEN "cache"
    ELSE IF params.startDate # <<>> /\ StrLess(FreshDate(nowDay), params.startDate)
    THEN "realtime"
    ELSE "hybrid"

\* the strategy chosen by getHrZoneStats
HrZoneRoute(params, nowDay) ==
    IF params.endDate # <<>> /\ StrLess(params.endDate, FreshDate(nowDay)) THEN "cache"
    ELSE IF params.startDate # <<>> /\ StrLeq(FreshDate(nowDay), params.startDate)
    THEN "realtime"
    ELSE "hybrid"

\* the strategy chosen by getVDOTTrend
VDOTTrendRoute(params, nowDay) ==
    IF params.endDate # <<>> /\ StrLess(params.endDate, FreshDate(nowDay)) THEN "cache"
    ELSE IF params.startDate # <<>> /\ StrLeq(FreshDate(nowDay), params.startDate)
    THEN "realtime"
    ELSE "hybrid"

\* what a query did: the strategy, the sources it called, whether it threw,
\* the cached and the live part and the list returned
Served(fn, params, route, called, cached, realtime, result) ==
    [fn |-> fn, params |-> params, route |-> route, called |-> called,
     threw |-> result.threw, cached |-> cached.rows, realtime |-> realtime.rows,
     result |-> result.rows]

\* getHrZoneStats
getHrZoneStats(params) ==
    LET route == HrZoneRoute(params, now)
        fresh == FreshDate(now)
    IN  IF route = "cache"
        THEN LET cached == getHrZoneStatsFromCache(params)
             IN  Served("getHrZoneStats", params, route, {"cache"},
                        cached, Returned(<<>>), cached)
        ELSE IF route = "realtime"
        THEN LET realtime == getHrZoneStatsRealtime(params)
             IN  Served("getHrZoneStats", params, route, {"realtime"},
                        Returned(<<>>), realtime, realtime)
        ELSE LET cached == getHrZoneStatsFromCache([params EXCEPT !.endDate = fresh])
                 realtime == getHrZoneStatsRealtime([params EXCEPT !.startDate = fresh])
             IN  IF cached.threw
                 THEN Served("getHrZoneStats", params, route, {"cache"},
                             cached, Returned(<<>>), Threw)
                 ELSE IF realtime.threw
                 THEN Served("getHrZoneStats", params, route, {"cache", "realtime"},
                             cached, realtime, Threw)
                 ELSE Served("getHrZoneStats", params, route, {"cache", "realtime"},
                             cached, realtime,
                             Returned(mergeHrZoneStats(cached.rows, realtime.rows)))

\* getVDOTTrend
getVDOTTrend(params) ==
    LET route == VDOTTrendRoute(params, now)
        fresh == FreshDate(now)
    IN  IF route = "cache"
        THEN LET cached == getVDOTTrendFromCache(params)
             IN  Served("getVDOTTrend", params, route, {"cache"},
                        cached, Returned(<<>>), cached)
        ELSE IF route = "realtime"
        THEN LET realtime == getVDOTTrendRealtime(params)
             IN  Served("getVDOTTrend", params, route, {"realtime"},
                        Returned(<<>>), realtime, realtime)
        ELSE LET cached == getVDOTTrendFromCache([params EXCEPT !.endDate = fresh])
                 realtime == getVDOTTrendRealtime([params EXCEPT !.startDate = fresh])
             IN  IF cached.threw
                 THEN Served("getVDOTTrend", params, route, {"cache"},
                             cached, Returned(<<>>), Threw)
                 ELSE IF realtime.threw
                 THEN Served("getVDOTTrend", params, route, {"cache", "realtime"},
                             cached, realtime, Threw)
                 ELSE Served("getVDOTTrend", params, route, {"cache", "realtime"},
                             cached, realtime,
                             Returned(mergeVDOTTrend(cached.rows, realtime.rows)))

----------------------------------------------------------------------------
(* Ingest and the batch that rebuilds the cache *)

\* the row _syncActivity hands to upsertActivity: the decoded session fields
\* plus the VDOT computed when an average heart rate is present (distance is
\* in kilometres)
ActivityRow(activityId, f) ==
    [activity_id |-> activityId,
     start_time |-> f.start_time,
     duration |-> f.duration,
     distance |-> f.distance,
     average_pace |-> f.average_pace,
     average_cadence |-> f.average_cadence,
     average_stride_length |-> f.average_stride_length,
     average_heart_rate |-> f.average_heart_rate,
     vdot_value |-> IF Truthy(f.average_heart_rate)
                    THEN calculateVdotFromPace(OrZero(f.distance) * 1000,
                             OrZero(f.duration), f.average_heart_rate, MAX_HR)
                    ELSE Null]

\* INSERT ... ON CONFLICT(activity_id) DO UPDATE
upsertActivity(table, row) ==
    {a \in table : a.activity_id # row.activity_id} \cup {row}

\* the rollups the batch writes, per granularity, keyed by the period key of
\* the activity's start time
CacheItems(groupBy) ==
    LET ordered == OrderByStartTime({a \in activities : a.average_heart_rate # Null})
    IN  [i \in 1 .. Len(ordered) |->
            [period |-> getPeriodFromDate(ordered[i].start_time, groupBy),
             period_type |-> groupBy, activity |-> ordered[i]]]

CacheTrendItems(groupBy) ==
    LET ordered == OrderByStartTime({a \in activities : a.vdot_value # Null})
    IN  [i \in 1 .. Len(ordered) |->
            [period |-> getPeriodFromDate(ordered[i].start_time, groupBy),
             period_type |-> groupBy, activity |-> ordered[i]]]

----------------------------------------------------------------------------
(* The operations on the database.  better-sqlite3 is synchronous, so a     *)
(* query is one step; `last` is the response it is returning, and the next   *)
(* operation starts once the response has been handed over (Respond), so     *)
(* that a response always stands next to the state it was computed from.     *)

NoCall == [fn |-> "none"]

NoQuery == [fn |-> "none"]

\* activity ids 1 .. MaxActivities
MaxActivities == 2

\* the clock runs from 2026-01-08 for MaxTicks days
MaxTicks == 1

NowStart == DateUTC(2026, 1, 8)

Noon(year, month, dom) == <<year, month, dom, 43200>>

\* the decoded sessions a sync may meet
SyncSamples ==
    {[start_time |-> t, duration |-> Some(1500), distance |-> Some(5),
      average_pace |-> Some(300), average_cadence |-> Null,
      average_stride_length |-> Null, average_heart_rate |-> Some(hr)] :
        t \in {Noon(2025, 12, 29), Noon(2026, 1, 3)},
        hr \in {120, 160}}

StartDates == {<<>>, <<2025, 12, 28>>, <<2026, 1, 2>>}

EndDates == {<<>>, <<2025, 12, 30>>, <<2026, 1, 2>>, <<2026, 1, 10>>}

\* one new activity synced: syncAll keeps the activities whose id is not yet
\* stored, and _syncActivity upserts the row; the DatabaseManager creates the
\* file and the activities table, not the cache tables.  The ids are numbered
\* in the order in which the activities are synced; the FIT file is downloaded
\* and cached, and it holds no laps.
SyncActivity ==
    \E id \in 1 .. MaxActivities, f \in SyncSamples :
        /\ last = NoQuery
        /\ id \notin {a.activity_id : a \in activities}
        /\ id = Cardinality(activities) + 1
        /\ activities' = upsertActivity(activities, ActivityRow(id, f))
        /\ dbFile' = TRUE
        /\ fitCache' = fitCache \cup {id}
        /\ downloads' = IF id \in fitCache THEN downloads ELSE Append(downloads, id)
        /\ UNCHANGED <<now, hrCache, vdotCache, cacheTables, last, call, laps, lapRowid, run>>

\* preprocess-stats-cache.js --mode full --clear: both cache tables rebuilt
\* from all stored activities
PreprocessStatsCache ==
    /\ last = NoQuery
    /\ dbFile
    /\ cacheTables' = TRUE
    /\ hrCache' = UNION {FoldHrZones(CacheItems(g), {}, MAX_HR) : g \in GroupBys}
    /\ vdotCache' = UNION {{[t EXCEPT !.total_distance = @ \div 1000] :
                               t \in FoldTrend(CacheTrendItems(g), {})} : g \in GroupBys}
    /\ UNCHANGED <<now, activities, dbFile, last, call, laps, lapRowid, fitCache, downloads, run>>

\* a day passes
Tick ==
    /\ last = NoQuery
    /\ now < NowStart + MaxTicks
    /\ now' = now + 1
    /\ UNCHANGED <<activities, hrCache, vdotCache, dbFile, cacheTables, last, call, laps, lapRowid, fitCache, downloads, run>>

HrZoneStatsQuery(starts, ends) ==
    \E s \in starts, e \in ends, g \in GroupBys :
        /\ last = NoQuery
        /\ last' = getHrZoneStats([startDate |-> s, endDate |-> e, groupBy |-> g])
        /\ UNCHANGED <<now, activities, hrCache, vdotCache, dbFile, cacheTables, call, laps, lapRowid, fitCache, downloads, run>>

VDOTTrendQuery(starts, ends) ==
    \E s \in starts, e \in ends, g \in GroupBys :
        /\ last = NoQuery
        /\ last' = getVDOTTrend([startDate |-> s, endDate |-> e, groupBy |-> g])
        /\ UNCHANGED <<now, activities, hrCache, vdotCache, dbFile, cacheTables, call, laps, lapRowid, fitCache, downloads, run>>

\* the response is handed to the caller
Respond ==
    /\ last # NoQuery
    /\ last' = NoQuery
    /\ UNCHANGED <<now, activities, hrCache, vdotCache, dbFile, cacheTables, call, laps, lapRowid, fitCache, downloads, run>>

QueryHrZoneStats == HrZoneStatsQuery(StartDates, EndDates)

QueryVDOTTrend == VDOTTrendQuery(StartDates, EndDates)

Init ==
    /\ now = NowStart
    /\ activities = {}
    /\ hrCache = {}
    /\ vdotCache = {}
    /\ dbFile = FALSE
    /\ cacheTables = FALSE
    /\ last = NoQuery
    /\ call = NoCall
    /\ laps = {}
    /\ lapRowid = 0
    /\ fitCache = {}
    /\ downloads = <<>>
    /\ run = <<>>

Next ==
    \/ SyncActivity
    \/ PreprocessStatsCache
    \/ Tick
    \/ QueryHrZoneStats
    \/ QueryVDOTTrend
    \/ Respond

Spec == Init /\ [][Next]_vars

----------------------------------------------------------------------------
(* Live aggregation over drawn tables: the clock stands at 2026-01-08, the    *)
(* cache tables exist and are empty, and the activities table holds up to     *)
(* MaxAggActivities rows.                                                     *)

MaxAggActivities == 2

AggSamples ==
    {[start_time |-> t, duration |-> d, distance |-> Some(5),
      average_pace |-> Some(300), average_cadence |-> Null,
      average_stride_length |-> Null, average_heart_rate |-> hr] :
        t \in {Noon(2026, 1, 2), Noon(2026, 1, 6)},
        d \in {Null, Some(1800)},
        hr \in {Null, Some(0), Some(-5), Some(120), Some(130), Some(160)}}

AggTables ==
    UNION {{{ActivityRow(i, f[i]) : i \in 1 .. n} : f \in [1 .. n -> AggSamples]} :
              n \in 0 .. MaxAggActivities}

InitAgg ==
    /\ now = NowStart
    /\ activities \in AggTables
    /\ hrCache = {}
    /\ vdotCache = {}
    /\ dbFile = TRUE
    /\ cacheTables = TRUE
    /\ last = NoQuery
    /\ call = NoCall
    /\ laps = {}
    /\ lapRowid = 0
    /\ fitCache = {}
    /\ downloads = <<>>
    /\ run = <<>>

AggregateHrZones == HrZoneStatsQuery({<<>>, <<2026, 1, 2>>}, {<<>>, <<2026, 1, 5>>})

NextAgg == AggregateHrZones \/ Respond

SpecAgg == InitAgg /\ [][NextAgg]_vars

----------------------------------------------------------------------------
(* The pure functions applied to drawn inputs.  The functions keep no state, *)
(* so a behaviour applies one function once: a second call reaches no state  *)
(* that a first call does not.                                               *)

\* heart rates offered to the classifiers: -2 .. HrTop
HrTop == 210

\* values of MAX_HR (the default is 190)
MaxHrSamples == {180, 190, 200}

DistanceSamples == {-5000, 0, 1000, 5000, 10000, 12000}

DurationSamples == {-1500, 0, 300, 1200, 1500, 3000}

AvgHrSamples == {Null, Some(0), Some(120), Some(140), Some(160)}

\* the days offered to the period keyer: PeriodDays days from 2025-12-25 on
PeriodDays == 20

SecondSamples == {0, 43200, 86399}

PeriodInputs ==
    LET days == {DateUTC(2025, 12, 25) + i : i \in 0 .. PeriodDays}
    IN  {IsoDate(d) : d \in days}
        \cup {toISOString([day |-> d, sec |-> s]) : d \in days, s \in SecondSamples}

ClassifyHr ==
    \E avgHr \in -2 .. HrTop, maxHr \in MaxHrSamples :
        /\ call = NoCall
        /\ call' = [fn |-> "getHrZone", avgHr |-> avgHr, maxHr |-> maxHr,
                    ingest |-> VDOTCalculator_getHrZone(avgHr, maxHr),
                    query  |-> getHrZone(avgHr, maxHr)]
        /\ UNCHANGED <<now, activities, hrCache, vdotCache, dbFile, cacheTables, last, laps, lapRowid, fitCache, downloads, run>>

EstimateFitness ==
    \E d \in DistanceSamples, t \in DurationSamples, hr \in AvgHrSamples :
        /\ call = NoCall
        /\ call' = [fn |-> "calculateVdotFromPace", distanceMeters |-> d,
                    durationSeconds |-> t, avgHr |-> hr, maxHr |-> MAX_HR,
                    result |-> calculateVdotFromPace(d, t, hr, MAX_HR)]
        /\ UNCHANGED <<now, activities, hrCache, vdotCache, dbFile, cacheTables, last, laps, lapRowid, fitCache, downloads, run>>

PeriodKey ==
    \E dateStr \in PeriodInputs, groupBy \in GroupBys :
        /\ call = NoCall
        /\ call' = [fn |-> "periodKey", dateStr |-> dateStr, groupBy |-> groupBy,
                    helper |-> getPeriodFromDate(dateStr, groupBy),
                    live   |-> getPeriod(dateStr, groupBy)]
        /\ UNCHANGED <<now, activities, hrCache, vdotCache, dbFile, cacheTables, last, laps, lapRowid, fitCache, downloads, run>>

InitFn ==
    /\ now = DateUTC(2026, 1, 8)
    /\ activities = {}
    /\ hrCache = {}
    /\ vdotCache = {}
    /\ dbFile = TRUE
    /\ cacheTables = TRUE
    /\ last = NoQuery
    /\ call = NoCall
    /\ laps = {}
    /\ lapRowid = 0
    /\ fitCache = {}
    /\ downloads = <<>>
    /\ run = <<>>

NextFn == ClassifyHr \/ EstimateFitness \/ PeriodKey

SpecFn == InitFn /\ [][NextFn]_vars

----------------------------------------------------------------------------
(* Claims about the pure functions, checked under SpecFn *)

\* the step function of the claim: one more than the number of boundaries
\* (70, 80, 87, 93 percent of maxHr) that avgHr has reached
ZoneStep(avgHr, maxHr) ==
    1 + Cardinality({b \in {70, 80, 87, 93} : 100 * avgHr >= b * maxHr})

C6_NullOnNonPositiveInput ==
    (/\ call.fn = "calculateVdotFromPace"
     /\ (call.durationSeconds <= 0 \/ call.distanceMeters <= 0))
        => call.result = Null

\* a negative distance over a negative duration, with a heart rate, gave null
C6_Witness ==
    /\ call.fn = "calculateVdotFromPace"
    /\ call.durationSeconds < 0
    /\ call.distanceMeters < 0
    /\ Truthy(call.avgHr)
    /\ call.result = Null

\* C7: for positive inputs the result is null if %VO2max is <= 0 or > 1 or the
\* adjusted score is outside [20, 100]; otherwise it is the score rounded to
\* one decimal, hence within [20, 100] and a multiple of 0.1.
C7_GuardsAndRounding ==
    (/\ call.fn = "calculateVdotFromPace"
     /\ call.durationSeconds > 0
     /\ call.distanceMeters > 0)
        => LET pct   == PercentVo2max(call.durationSeconds)
               score == AdjustedVdot(call.distanceMeters, call.durationSeconds,
                                     call.avgHr, call.maxHr)
           IN  IF pct <= 0 \/ pct > 10000 THEN call.result = Null
               ELSE IF score < 20000 \/ score > 100000 THEN call.result = Null
               ELSE /\ call.result # Null
                    /\ call.result[1] % 100 = 0
                    /\ call.result[1] - score <= 50
                    /\ score - call.result[1] < 50
                    /\ call.result[1] >= 20000
                    /\ call.result[1] <= 100000

\* a score that is not already a multiple of 0.1 has been rounded and returned
C7_Witness ==
    /\ call.fn = "calculateVdotFromPace"
    /\ call.result # Null
    /\ AdjustedVdot(call.distanceMeters, call.durationSeconds,
                    call.avgHr, call.maxHr) % 100 # 0

\* the period key of the claim: UTC year and month, or the UTC year and
\* ceil((daysSinceJan1 + Jan1Weekday + 1) / 7) with whole days
ClaimedPeriodKey(dateStr, groupBy) ==
    LET day  == DateUTC(dateStr[1], dateStr[2], dateStr[3])
        jan1 == DateUTC(dateStr[1], 1, 1)
    IN  IF groupBy = "month" THEN <<dateStr[1], dateStr[2]>>
        ELSE <<dateStr[1], 100 + CeilDiv((day - jan1) + getUTCDay(jan1) + 1, 7)>>

\* C8: the helper that bounds the cache queries and the key computed during
\* live aggregation both give YYYY-MM for months and YYYY-Www with
\* week = ceil((daysSinceJan1 + Jan1Weekday + 1) / 7), whole UTC days.
C8_PeriodKeyFormula ==
    call.fn = "periodKey" =>
        /\ call.helper = ClaimedPeriodKey(call.dateStr, call.groupBy)
        /\ call.live = ClaimedPeriodKey(call.dateStr, call.groupBy)

----------------------------------------------------------------------------
(* Claims about the HybridResolver, checked under Spec *)

Queries == {"getHrZoneStats", "getVDOTTrend"}

\* the day number of a date "YYYY-MM-DD"
DayOf(dateStr) == DateUTC(dateStr[1], dateStr[2], dateStr[3])

\* the calendar date 7 days before now, as a day number
ThresholdDay == now - 7

EndBeforeThreshold ==
    last.params.endDate # <<>> /\ DayOf(last.params.endDate) < ThresholdDay

StartOnOrAfterThreshold ==
    last.params.startDate # <<>> /\ DayOf(last.params.startDate) >= ThresholdDay

\* C1 as amended: an end date strictly before the threshold is served from
\* the cache alone; a start date on or after the threshold is served by live
\* aggregation alone, unless the end date is strictly before the threshold.
C1_SingleSourceRouting ==
    last.fn \in Queries =>
        /\ EndBeforeThreshold =>
               /\ last.called = {"cache"}
               /\ last.result = last.cached
        /\ (StartOnOrAfterThreshold /\ ~EndBeforeThreshold) =>
               /\ last.called = {"realtime"}
               /\ last.result = last.realtime

\* C1 as stated: an end date strictly before the threshold is served from the
\* cache alone, and a start date on or after the threshold by live
\* aggregation alone.
C1_AsStated ==
    last.fn \in Queries =>
        /\ EndBeforeThreshold => last.called = {"cache"}
        /\ StartOnOrAfterThreshold => last.called = {"realtime"}

\* a query whose start date is the threshold date itself returned live rows
C1_Witness ==
    /\ last.fn \in Queries
    /\ last.params.startDate # <<>>
    /\ DayOf(last.params.startDate) = ThresholdDay
    /\ ~EndBeforeThreshold
    /\ last.called = {"realtime"}
    /\ last.result # <<>>

\* the cached rollups that cover [startDate, threshold): those of the cached
\* part whose period is at most the period of the day before the threshold
CachedBeforeThreshold ==
    LET lastKey == ClaimedPeriodKey(IsoDate(ThresholdDay - 1), last.params.groupBy)
        Covered(row) == StrLeq(row.period, lastKey)
    IN  SelectSeq(last.cached, Covered)

\* C2: on the straddling route the result is the cached rollups covering
\* [startDate, threshold) together with the live rollups for
\* [threshold, endDate], concatenated and re-sorted.
C2_HybridHalfOpen ==
    (last.fn \in Queries /\ last.route = "hybrid" /\ ~last.threw) =>
        last.result =
            IF last.fn = "getHrZoneStats"
            THEN SortHrZoneStats(CachedBeforeThreshold \o last.realtime)
            ELSE SortTrend(CachedBeforeThreshold \o last.realtime)

\* C3: a query that reads the cache returns normally, the cached part being
\* empty when the cache tables cannot be read.
C3_CacheFailureIsEmpty ==
    (last.fn \in Queries /\ "cache" \in last.called) =>
        /\ ~last.threw
        /\ (~cacheTables => last.cached = <<>>)

\* (period, zone) of a is not after that of b
PeriodZoneLeq(a, b) ==
    \/ StrLess(a.period, b.period)
    \/ a.period = b.period /\ a.hr_zone <= b.hr_zone

\* C4: every list getHrZoneStats returns is sorted by period, then zone, and
\* every list getVDOTTrend returns by period, on all three routes.
C4_Sorted ==
    (last.fn \in Queries /\ ~last.threw) =>
        \A i, j \in 1 .. Len(last.result) :
            i < j =>
                IF last.fn = "getHrZoneStats"
                THEN PeriodZoneLeq(last.result[i], last.result[j])
                ELSE StrLeq(last.result[i].period, last.result[j].period)

\* a merged list of cached and live rows of two zones has been returned
C4_Witness ==
    /\ last.fn = "getHrZoneStats"
    /\ last.route = "hybrid"
    /\ ~last.threw
    /\ last.cached # <<>>
    /\ last.realtime # <<>>
    /\ \E i, j \in 1 .. Len(last.result) :
           /\ last.result[i].period = last.result[j].period
           /\ last.result[i].hr_zone < last.result[j].hr_zone

----------------------------------------------------------------------------
(* Claims about live zone aggregation, checked under SpecAgg *)

\* the start of the range that the live part was computed for
LiveStart ==
    IF last.route = "hybrid" THEN FreshDate(now) ELSE last.params.startDate

\* the activities in range with an average heart rate above zero
Counted ==
    {a \in activities :
        /\ InDateFilter(a, LiveStart, last.params.endDate)
        /\ a.average_heart_rate # Null
        /\ a.average_heart_rate[1] > 0}

\* the activities in range without one
Uncounted ==
    {a \in activities :
        /\ InDateFilter(a, LiveStart, last.params.endDate)
        /\ (a.average_heart_rate = Null \/ a.average_heart_rate[1] <= 0)}

RECURSIVE SumOver(_, _)
SumOver(rows, field) ==
    IF rows = <<>> THEN 0 ELSE Head(rows)[field] + SumOver(Tail(rows), field)

RECURSIVE SumDuration(_)
SumDuration(S) ==
    IF S = {} THEN 0
    ELSE LET a == CHOOSE x \in S : TRUE
         IN  OrZero(a.duration) + SumDuration(S \ {a})

RECURSIVE SumHeartRate(_)
SumHeartRate(S) ==
    IF S = {} THEN 0
    ELSE LET a == CHOOSE x \in S : TRUE
         IN  a.average_heart_rate[1] + SumHeartRate(S \ {a})

LiveAggregated ==
    /\ last.fn = "getHrZoneStats"
    /\ last.route # "cache"
    /\ ~last.threw

\* C9: over the live rollups, the activity counts add up to the number of
\* activities in range whose average heart rate is above zero, and the
\* durations to the sum of their durations.
C9_ZoneZeroExcluded ==
    LiveAggregated =>
        /\ SumOver(last.realtime, "activity_count") = Cardinality(Counted)
        /\ SumOver(last.realtime, "total_duration") = SumDuration(Counted)

\* an activity without a usable heart rate was in range next to a counted one
C9_Witness ==
    /\ LiveAggregated
    /\ Uncounted # {}
    /\ Counted # {}
    /\ last.realtime # <<>>

\* C10: the activities of one period and one zone are folded into exactly one
\* rollup, whose activity_count is their number and whose avg_heart_rate is
\* the arithmetic mean of their average heart rates.
C10_OneRowPerPeriodZone ==
    LiveAggregated =>
        \A a \in Counted :
            LET period == getPeriod(a.start_time, last.params.groupBy)
                zone   == getHrZone(a.average_heart_rate[1], MAX_HR)
                group  == {b \in Counted :
                              /\ getPeriod(b.start_time, last.params.groupBy) = period
                              /\ getHrZone(b.average_heart_rate[1], MAX_HR) = zone}
                rows   == {i \in 1 .. Len(last.realtime) :
                              /\ last.realtime[i].period = period
                              /\ last.realtime[i].hr_zone = zone}
            IN  /\ Cardinality(rows) = 1
                /\ \A i \in rows :
                       /\ last.realtime[i].activity_count = Cardinality(group)
                       /\ last.realtime[i].avg_heart_rate =
                              Frac(SumHeartRate(group), Cardinality(group))

\* two activities of 120 and 130 bpm were folded into one rollup of mean 125
C10_Witness ==
    /\ LiveAggregated
    /\ \E i \in 1 .. Len(last.realtime) :
           /\ last.realtime[i].activity_count = 2
           /\ last.realtime[i].avg_heart_rate = <<125, 1>>

----------------------------------------------------------------------------
(* One rollup of getHrZoneStatsRealtime followed through the activities that *)
(* are folded into it                                                        *)

\* the number of activities folded into the rollup
MaxFolds == 3

\* activities of one period and zone; 0 and null stand for a missing pace,
\* cadence or stride (stride in centimetres)
FoldSamples ==
    {[duration |-> Some(1800), distance |-> Some(5),
      average_pace |-> s[1], average_cadence |-> s[2],
      average_stride_length |-> s[3], average_heart_rate |-> Some(s[4])] :
        s \in {<<Some(300), Some(170), Some(110), 120>>,
               <<Some(360), Some(180), Null, 130>>,
               <<Null, Some(0), Some(0), 125>>,
               <<Some(0), Null, Some(120), 120>>,
               <<Some(330), Some(0), Some(100), 110>>}}

\* lines 628-650 for the next activity of the rollup's key
FoldActivity ==
    \E activity \in FoldSamples :
        LET before == IF call = NoCall
                      THEN NewHrZoneStat(<<2026, 1>>, "month", 1)
                      ELSE call.after
        IN  /\ call = NoCall \/ call.fn = "fold"
            /\ before.activity_count < MaxFolds
            /\ call' = [fn |-> "fold", before |-> before, activity |-> activity,
                        after |-> FoldedHrZoneStat(before, activity)]
            /\ UNCHANGED <<now, activities, hrCache, vdotCache, dbFile, cacheTables, last, laps, lapRowid, fitCache, downloads, run>>

NextFold == FoldActivity

SpecFold == InitFn /\ [][NextFold]_vars

\* the mean that the update rule gives; a mean that is still absent enters
\* the rule as 0
ClaimedMean(oldMean, sample, n) ==
    IF sample = Null \/ sample[1] = 0
    THEN oldMean
    ELSE IF oldMean = Null
         THEN Frac(sample[1], n)
         ELSE Frac(oldMean[1] * (n - 1) + sample[1] * oldMean[2], oldMean[2] * n)

\* C11: folding an activity updates each of the four running means of the
\* rollup to (oldMean * (n - 1) + sample) / n, n being the activity count
\* after counting the activity, and a zero or absent sample leaves the mean
\* as it was.
C11_RunningMeans ==
    call.fn = "fold" =>
        LET n == call.after.activity_count
        IN  /\ n = call.before.activity_count + 1
            /\ call.after.avg_pace =
                   ClaimedMean(call.before.avg_pace, call.activity.average_pace, n)
            /\ call.after.avg_cadence =
                   ClaimedMean(call.before.avg_cadence, call.activity.average_cadence, n)
            /\ call.after.avg_stride_length =
                   ClaimedMean(call.before.avg_stride_length,
                               call.activity.average_stride_length, n)
            /\ call.after.avg_heart_rate =
                   ClaimedMean(call.before.avg_heart_rate,
                               call.activity.average_heart_rate, n)

\* a third activity without cadence was folded into a rollup that had a mean
\* cadence, and its pace changed the mean pace
C11_Witness ==
    /\ call.fn = "fold"
    /\ call.after.activity_count = 3
    /\ call.before.avg_cadence # Null
    /\ ~Truthy(call.activity.average_cadence)
    /\ call.after.avg_cadence = call.before.avg_cadence
    /\ call.before.avg_pace # Null
    /\ Truthy(call.activity.average_pace)
    /\ call.after.avg_pace # call.before.avg_pace

----------------------------------------------------------------------------
(* RecordExtractor: the best time over a target distance within one activity *)
(* Distances are in metres and durations in seconds, both integers here.     *)

\* Math.round(num / den) for den > 0: the nearest integer, a half going up
MathRound(num, den) == (2 * num + den) \div (2 * den)

\* { durationSeconds, achievedAt }
BestTime(durationSeconds, achievedAt) ==
    Some([durationSeconds |-> durationSeconds, achievedAt |-> achievedAt])

\* a walk that counts the lap in which the target is reached in full
RECURSIVE WalkLaps_wholeLap(_, _, _, _, _)
WalkLaps_wholeLap(lapSeq, cumDist, cumTime, targetMeters, startTime) ==
    IF lapSeq = <<>> THEN Null
    ELSE LET lapDist     == OrZero(Head(lapSeq).distance)
             lapDuration == OrZero(Head(lapSeq).duration)
         IN  IF cumDist + lapDist >= targetMeters
             THEN BestTime(cumTime + lapDuration, startTime)
             ELSE WalkLaps_wholeLap(Tail(lapSeq), cumDist + lapDist,
                                    cumTime + lapDuration, targetMeters, startTime)

\* the loop over the laps: cumDist and cumTime are the distance and time of
\* the laps already passed
RECURSIVE WalkLaps(_, _, _, _, _)
WalkLaps(lapSeq, cumDist, cumTime, targetMeters, startTime) ==
    IF lapSeq = <<>> THEN Null
    ELSE LET lapDist     == OrZero(Head(lapSeq).distance)
             lapDuration == OrZero(Head(lapSeq).duration)
             remaining   == targetMeters - cumDist
         IN  IF cumDist + lapDist >= targetMeters
             THEN IF lapDist > 0
                  THEN BestTime(MathRound(cumTime * lapDist + lapDuration * remaining,
                                          lapDist), startTime)
                  ELSE BestTime(cumTime, startTime)
             ELSE WalkLaps(Tail(lapSeq), cumDist + lapDist, cumTime + lapDuration,
                           targetMeters, startTime)

\* the function with the ratio of the scaling turned over
bestTimeForDistanceMeters_inverseRatio(startTime, activityDistanceMeters, activityDurationSeconds, targetMeters, lapSeq) ==
    IF activityDistanceMeters < targetMeters THEN Null
    ELSE IF lapSeq = <<>>
         THEN BestTime(MathRound(activityDurationSeconds * activityDistanceMeters,
                                 targetMeters), startTime)
         ELSE WalkLaps(lapSeq, 0, 0, targetMeters, startTime)

\* the function without its first line: the laps are walked, or the duration
\* scaled, whatever the activity's distance
bestTimeForDistanceMeters_noPrecondition(startTime, activityDistanceMeters, activityDurationSeconds, targetMeters, lapSeq) ==
    IF lapSeq = <<>>
    THEN BestTime(MathRound(activityDurationSeconds * targetMeters,
                            activityDistanceMeters), startTime)
    ELSE WalkLaps(lapSeq, 0, 0, targetMeters, startTime)

\* lapSeq is getLaps(activityId): the activity's laps in lap_index order
bestTimeForDistanceMeters(startTime, activityDistanceMeters, activityDurationSeconds, targetMeters, lapSeq) ==
    IF activityDistanceMeters < targetMeters THEN Null
    ELSE IF lapSeq = <<>>
         THEN BestTime(MathRound(activityDurationSeconds * targetMeters,
                                 activityDistanceMeters), startTime)
         ELSE WalkLaps(lapSeq, 0, 0, targetMeters, startTime)

----------------------------------------------------------------------------
(* bestTimeForDistanceMeters applied to drawn activities and lap sequences *)

\* the longest drawn lap sequence (the ten-lap activity apart)
MaxLaps == 3

Lap(distance, duration) == [distance |-> Some(distance), duration |-> Some(duration)]

LapSamples == {Lap(1000, 300), Lap(1000, 400), Lap(600, 181)}

RECURSIVE LapSeqsOfLen(_)
LapSeqsOfLen(n) ==
    IF n = 0 THEN {<<>>}
    ELSE {Append(ls, l) : ls \in LapSeqsOfLen(n - 1), l \in LapSamples}

TenLaps == [i \in 1 .. 10 |-> Lap(1000, 300)]

LapSeqs == UNION {LapSeqsOfLen(n) : n \in 0 .. MaxLaps} \cup {TenLaps}

TargetSamples == {500, 1600, 5000}

ActivityDistances == {400, 1000, 2000, 2600, 10000}

ActivityDurations == {300, 601, 3000}

BestTimeForDistance ==
    \E d \in ActivityDistances, t \in ActivityDurations,
       target \in TargetSamples, ls \in LapSeqs :
        /\ call = NoCall
        /\ call' = [fn |-> "bestTimeForDistanceMeters",
                    startTime |-> toISOString([day |-> NowStart, sec |-> 43200]),
                    activityDistanceMeters |-> d, activityDurationSeconds |-> t,
                    targetMeters |-> target, laps |-> ls,
                    result |-> bestTimeForDistanceMeters(
                        toISOString([day |-> NowStart, sec |-> 43200]), d, t, target, ls)]
        /\ UNCHANGED <<now, activities, hrCache, vdotCache, dbFile, cacheTables, last,
                       laps, lapRowid, fitCache, downloads, run>>

NextBest == BestTimeForDistance

SpecBest == InitFn /\ [][NextBest]_vars

BestTimeCalled == call.fn = "bestTimeForDistanceMeters"

\* C12: the result is null when the activity is shorter than the target; for
\* an activity that reaches the target and has no laps it is the duration
\* scaled by target / distance, to the nearest second, achieved at the
\* activity's start time.
C12_PreconditionAndScaling ==
    BestTimeCalled =>
        /\ call.activityDistanceMeters < call.targetMeters => call.result = Null
        /\ (call.activityDistanceMeters >= call.targetMeters /\ call.laps = <<>>) =>
               /\ call.result # Null
               /\ call.result[1].achievedAt = call.startTime
               /\ 2 * Abs(call.result[1].durationSeconds * call.activityDistanceMeters
                          - call.activityDurationSeconds * call.targetMeters)
                      <= call.activityDistanceMeters

\* an activity without laps was scaled down to a target it is longer than,
\* the scaled time not being a whole number of seconds
C12_Witness ==
    /\ BestTimeCalled
    /\ call.laps = <<>>
    /\ call.activityDistanceMeters > call.targetMeters
    /\ call.result # Null
    /\ call.result[1].durationSeconds * call.activityDistanceMeters
           # call.activityDurationSeconds * call.targetMeters

\* the distance and the time of the first n laps
RECURSIVE LapsDistance(_, _)
LapsDistance(lapSeq, n) ==
    IF n = 0 THEN 0 ELSE LapsDistance(lapSeq, n - 1) + lapSeq[n].distance[1]

RECURSIVE LapsDuration(_, _)
LapsDuration(lapSeq, n) ==
    IF n = 0 THEN 0 ELSE LapsDuration(lapSeq, n - 1) + lapSeq[n].duration[1]

\* the first lap at whose end the cumulative distance reaches the target
IsReachingLap(k) ==
    /\ k \in 1 .. Len(call.laps)
    /\ LapsDistance(call.laps, k) >= call.targetMeters
    /\ LapsDistance(call.laps, k - 1) < call.targetMeters

WalkedLaps ==
    /\ BestTimeCalled
    /\ call.laps # <<>>
    /\ call.activityDistanceMeters >= call.targetMeters

\* C13 as amended: for an activity with laps, the result is the time of the
\* laps before the first lap in which the cumulative distance reaches the
\* target, plus that lap's duration times the share of the lap still needed,
\* rounded to the nearest second; ten laps of 1000 m / 300 s give 1500 s for
\* 5000 m, and one lap of 1000 m / 300 s gives 150 s for 500 m.
C13_LapWalkRounded ==
    WalkedLaps =>
        /\ \A k \in 1 .. Len(call.laps) :
               IsReachingLap(k) =>
                   /\ call.result # Null
                   /\ 2 * Abs(call.result[1].durationSeconds * call.laps[k].distance[1]
                              - (LapsDuration(call.laps, k - 1) * call.laps[k].distance[1]
                                 + call.laps[k].duration[1]
                                   * (call.targetMeters - LapsDistance(call.laps, k - 1))))
                          <= call.laps[k].distance[1]
        /\ (call.laps = TenLaps /\ call.targetMeters = 5000) =>
               call.result[1].durationSeconds = 1500
        /\ (call.laps = <<Lap(1000, 300)>> /\ call.targetMeters = 500) =>
               call.result[1].durationSeconds = 150

\* C13 as stated: the result is exactly the time of the earlier laps plus the
\* lap's duration times the share of the lap still needed.
C13_AsStated ==
    WalkedLaps =>
        \A k \in 1 .. Len(call.laps) :
            IsReachingLap(k) =>
                /\ call.result # Null
                /\ call.result[1].durationSeconds * call.laps[k].distance[1]
                       = LapsDuration(call.laps, k - 1) * call.laps[k].distance[1]
                         + call.laps[k].duration[1]
                           * (call.targetMeters - LapsDistance(call.laps, k - 1))

\* the target was reached inside a later lap than the first, at a time that
\* is not a whole number of seconds
C13_Witness ==
    /\ WalkedLaps
    /\ call.result # Null
    /\ \E k \in 2 .. Len(call.laps) :
           /\ IsReachingLap(k)
           /\ call.result[1].durationSeconds * call.laps[k].distance[1]
                  # LapsDuration(call.laps, k - 1) * call.laps[k].distance[1]
                    + call.laps[k].duration[1]
                      * (call.targetMeters - LapsDistance(call.laps, k - 1))

\* the time from the start of lap i to the target distance from there, as a
\* fraction <<numerator, denominator>>; Null when the laps from i on are
\* shorter than the target
RECURSIVE StretchTime(_, _, _, _)
StretchTime(lapSeq, i, need, spent) ==
    IF i > Len(lapSeq) THEN Null
    ELSE IF lapSeq[i].distance[1] >= need
         THEN Some(<<spent * lapSeq[i].distance[1] + lapSeq[i].duration[1] * need,
                     lapSeq[i].distance[1]>>)
         ELSE StretchTime(lapSeq, i + 1, need - lapSeq[i].distance[1],
                          spent + lapSeq[i].duration[1])

\* C14: the returned duration is the shortest time, over the contiguous
\* stretches of the lap sequence wherever they start, in which the target
\* distance is covered: no stretch that starts at a lap boundary covers the
\* target in less (to the nearest second).
C14_ShortestStretch ==
    WalkedLaps =>
        \A i \in 1 .. Len(call.laps) :
            LET stretch == StretchTime(call.laps, i, call.targetMeters, 0)
            IN  stretch # Null =>
                    /\ call.result # Null
                    /\ 2 * call.result[1].durationSeconds * stretch[1][2]
                           <= 2 * stretch[1][1] + stretch[1][2]

----------------------------------------------------------------------------
(* getPersonalRecords *)

\* PR_DISTANCES, in metres
PR_DISTANCES == <<1600, 3000, 5000, 10000, 21100, 42200>>

RecordPeriods == {"week", "month", "year", "6months", "total"}

\* startDate of the switch on period, as a day number (the process runs in UTC)
RecordWindowStart(period, nowDay) ==
    LET ymd == Civil(nowDay)
    IN  CASE period = "week"    -> nowDay - 7
          [] period = "month"   -> DateUTC(ymd[1], ymd[2], 1)
          [] period = "year"    -> DateUTC(ymd[1], 1, 1)
          [] period = "6months" -> IF ymd[2] > 6
                                   THEN DateUTC(ymd[1], ymd[2] - 6, 1) + ymd[3] - 1
                                   ELSE DateUTC(ymd[1] - 1, ymd[2] + 6, 1) + ymd[3] - 1
          [] OTHER              -> 0

\* SELECT * FROM activity_laps WHERE activity_id = ? ORDER BY lap_index
RECURSIVE OrderByLapIndex(_)
OrderByLapIndex(S) ==
    IF S = {} THEN <<>>
    ELSE LET first == CHOOSE l \in S : \A m \in S \ {l} :
                          \/ l.lap_index < m.lap_index
                          \/ l.lap_index = m.lap_index /\ l.id < m.id
         IN  <<first>> \o OrderByLapIndex(S \ {first})

getActivityLaps(activityId) ==
    OrderByLapIndex({l \in laps : l.activity_id = activityId})

\* WHERE start_time >= ? AND start_time <= ? AND distance > 0, with the
\* parameters startStr and endStr + 'T23:59:59.999Z'
InRecordWindow(a, period, nowDay) ==
    /\ StrLeq(IsoDate(RecordWindowStart(period, nowDay)), a.start_time)
    /\ StrLeq(a.start_time, IsoDate(nowDay) \o <<SecPerDay - 1>>)
    /\ a.distance # Null
    /\ a.distance[1] > 0

\* a.distance < 1000 ? a.distance * 1000 : a.distance
distanceMeters(a) ==
    IF a.distance[1] < 1000 THEN a.distance[1] * 1000 ELSE a.distance[1]

\* a result that replaces the best so far whenever it is not null
Improves_always(r, best) == r # Null

\* r && (best == null || r.durationSeconds < best.durationSeconds)
Improves(r, best) ==
    /\ r # Null
    /\ best = Null \/ r[1].durationSeconds < best[1].durationSeconds

\* the loop over the activities for one target distance
RECURSIVE BestOver(_, _, _)
BestOver(rows, meters, best) ==
    IF rows = <<>> THEN best
    ELSE LET a == Head(rows)
             r == bestTimeForDistanceMeters(a.start_time, distanceMeters(a),
                      OrZero(a.duration), meters, getActivityLaps(a.activity_id))
         IN  BestOver(Tail(rows), meters, IF Improves(r, best) THEN r ELSE best)

\* the loop that finds the longest run
RECURSIVE LongestRun(_, _)
LongestRun(rows, longest) ==
    IF rows = <<>> THEN longest
    ELSE LongestRun(Tail(rows),
             IF distanceMeters(Head(rows)) > longest.longestRunMeters
             THEN [longestRunMeters |-> distanceMeters(Head(rows)),
                   longestRunDate |-> Some(Head(rows).start_time)]
             ELSE longest)

getPersonalRecords(period) ==
    IF ~getDatabase
    THEN [fn |-> "getPersonalRecords", period |-> period, threw |-> TRUE]
    ELSE LET rows == OrderByStartTime({a \in activities : InRecordWindow(a, period, now)})
             longest == LongestRun(rows, [longestRunMeters |-> 0, longestRunDate |-> Null])
         IN  [fn |-> "getPersonalRecords", period |-> period, threw |-> FALSE,
              startDate |-> IsoDate(RecordWindowStart(period, now)),
              endDate |-> IsoDate(now),
              records |-> [i \in 1 .. Len(PR_DISTANCES) |->
                  LET best == BestOver(rows, PR_DISTANCES[i], Null)
                  IN  [meters |-> PR_DISTANCES[i],
                       durationSeconds |-> IF best = Null THEN Null
                                           ELSE Some(best[1].durationSeconds),
                       achievedAt |-> IF best = Null THEN Null
                                      ELSE Some(best[1].achievedAt)]],
              longestRunMeters |-> longest.longestRunMeters,
              longestRunDate |-> longest.longestRunDate]

----------------------------------------------------------------------------
(* The activity_laps table *)

\* one element of lapsData as _extractLapsData builds it, with the columns
\* that the analytics read (distance in metres, pace in seconds per km); the
\* laps of one activity all carry the same keys
LapData(distance, duration, pace, hr, cadence, stride) ==
    [distance |-> Some(distance), duration |-> Some(duration),
     average_pace |-> pace, average_heart_rate |-> hr,
     average_cadence |-> cadence, average_stride_length |-> stride]

\* the rows that the INSERT of insertLaps adds for lapsData: lap_index counts
\* from 0 and the ids continue after rowid
LapRows(activityId, lapsData, rowid) ==
    {[id |-> rowid + i, activity_id |-> activityId, lap_index |-> i - 1,
      distance |-> lapsData[i].distance, duration |-> lapsData[i].duration,
      average_pace |-> lapsData[i].average_pace,
      average_heart_rate |-> lapsData[i].average_heart_rate,
      average_cadence |-> lapsData[i].average_cadence,
      average_stride_length |-> lapsData[i].average_stride_length] :
        i \in 1 .. Len(lapsData)}

\* an insertLaps that keeps the rows the activity already has
insertLaps_append(table, rowid, activityId, lapsData) ==
    table \cup LapRows(activityId, lapsData, rowid)

\* DELETE FROM activity_laps WHERE activity_id = ?, then one INSERT per lap
insertLaps(table, rowid, activityId, lapsData) ==
    {l \in table : l.activity_id # activityId} \cup LapRows(activityId, lapsData, rowid)

----------------------------------------------------------------------------
(* getPersonalRecords over drawn tables: the clock stands at 2026-01-08 *)

\* the number of activities in a drawn table
MaxRecActivities == 2

\* n laps of 1000 m in 300 s
RECURSIVE EvenLaps(_)
EvenLaps(n) ==
    IF n = 0 THEN <<>>
    ELSE Append(EvenLaps(n - 1), LapData(1000, 300, Some(300), Some(150), Null, Null))

\* activities with their laps: 5 km with five even laps; 5 km without laps;
\* 5 km whose laps add up to 4990 m; 10 km in December without laps; 2 km
\* with a slow lap before a fast one; 3 km with a lap without pace and a lap
\* without distance
RecSamples ==
    <<[start_time |-> Noon(2026, 1, 3), distance |-> 5, duration |-> 1500,
       lapsData |-> EvenLaps(5)],
      [start_time |-> Noon(2026, 1, 5), distance |-> 5, duration |-> 1400,
       lapsData |-> <<>>],
      [start_time |-> Noon(2026, 1, 6), distance |-> 5, duration |-> 1450,
       lapsData |-> EvenLaps(4)
                    \o <<LapData(990, 250, Some(253), Some(160), Null, Null)>>],
      [start_time |-> Noon(2025, 12, 20), distance |-> 10, duration |-> 2900,
       lapsData |-> <<>>],
      [start_time |-> Noon(2026, 1, 4), distance |-> 2, duration |-> 700,
       lapsData |-> <<LapData(1000, 400, Some(400), Some(140), Null, Null),
                      LapData(1000, 300, Some(300), Some(165), Null, Null)>>],
      [start_time |-> Noon(2026, 1, 7), distance |-> 3, duration |-> 1000,
       lapsData |-> <<LapData(1000, 360, Some(360), Null, Null, Null),
                      LapData(1000, 330, Null, Some(150), Null, Null),
                      LapData(0, 10, Some(300), Some(150), Null, Null),
                      LapData(1000, 300, Some(300), Some(0), Null, Null)>>]>>

RecActivity(i) ==
    ActivityRow(i, [start_time |-> RecSamples[i].start_time,
                    duration |-> Some(RecSamples[i].duration),
                    distance |-> Some(RecSamples[i].distance),
                    average_pace |-> Null, average_cadence |-> Null,
                    average_stride_length |-> Null,
                    average_heart_rate |-> Some(150)])

InitRecords ==
    /\ now = NowStart
    /\ \E ids \in SUBSET (1 .. Len(RecSamples)) :
           /\ Cardinality(ids) <= MaxRecActivities
           /\ activities = {RecActivity(i) : i \in ids}
           /\ laps = UNION {LapRows(i, RecSamples[i].lapsData, 10 * i) : i \in ids}
    /\ lapRowid = 10 * Len(RecSamples) + 10
    /\ hrCache = {}
    /\ vdotCache = {}
    /\ dbFile = TRUE
    /\ cacheTables = TRUE
    /\ last = NoQuery
    /\ call = NoCall
    /\ fitCache = {}
    /\ downloads = <<>>
    /\ run = <<>>

PersonalRecordsQuery ==
    \E period \in RecordPeriods :
        /\ last = NoQuery
        /\ last' = getPersonalRecords(period)
        /\ UNCHANGED <<now, activities, hrCache, vdotCache, dbFile, cacheTables, call,
                       laps, lapRowid, fitCache, downloads, run>>

NextRecords == PersonalRecordsQuery \/ Respond \/ Tick

SpecRecords == InitRecords /\ [][NextRecords]_vars

RecordsServed == last.fn = "getPersonalRecords" /\ ~last.threw

\* the activities whose start time falls in the window of the query
InWindow == {a \in activities : InRecordWindow(a, last.period, now)}

\* bestTimeForDistance of an activity for a target
BestOf(a, meters) ==
    bestTimeForDistanceMeters(a.start_time, distanceMeters(a), OrZero(a.duration),
                              meters, getActivityLaps(a.activity_id))

\* C15: for each of the six target distances the record is the minimum of
\* bestTimeForDistance over the activities in the window, achieved at the
\* start time of an activity with that minimum.
C15_RecordIsMinimum ==
    RecordsServed =>
        /\ Len(last.records) = 6
        /\ \A i \in 1 .. Len(last.records) :
               LET meters == PR_DISTANCES[i]
                   timed  == {a \in InWindow : BestOf(a, meters) # Null}
                   rec    == last.records[i]
               IN  IF timed = {}
                   THEN rec.durationSeconds = Null /\ rec.achievedAt = Null
                   ELSE /\ rec.durationSeconds # Null
                        /\ \A a \in timed :
                               rec.durationSeconds[1] <= BestOf(a, meters)[1].durationSeconds
                        /\ \E a \in timed :
                               /\ BestOf(a, meters)[1].durationSeconds = rec.durationSeconds[1]
                               /\ rec.achievedAt = Some(a.start_time)

\* two activities in the window were timed over 5000 m, the later being the
\* faster, and the record is the later one's
C15_Witness ==
    /\ RecordsServed
    /\ \E a, b \in InWindow :
           /\ StrLess(a.start_time, b.start_time)
           /\ BestOf(a, 5000) # Null
           /\ BestOf(b, 5000) # Null
           /\ BestOf(b, 5000)[1].durationSeconds < BestOf(a, 5000)[1].durationSeconds
           /\ last.records[3].achievedAt = Some(b.start_time)

\* C16: the record for a target distance is null exactly when no activity in
\* the window has a total distance that reaches the target.
C16_NullIffUnreached ==
    RecordsServed =>
        \A i \in 1 .. Len(last.records) :
            (\E a \in InWindow : distanceMeters(a) >= PR_DISTANCES[i])
                <=> (last.records[i].durationSeconds # Null
                     /\ last.records[i].achievedAt # Null)

----------------------------------------------------------------------------
(* getPaceZoneStats *)

\* results of getPaceZoneBoundsFromVdot and getPaceZoneCenterFromVdot: per
\* zone, Null or <<paceMin, paceMax, center>> in seconds per km.  Contiguous
\* bands that share their end points; bands with gaps; overlapping bands with
\* zone 2 missing
PaceBoundSamples ==
    {<<Some(<<360, 9999, 400>>), Some(<<330, 360, 345>>), Some(<<300, 330, 315>>),
       Some(<<280, 300, 290>>), Some(<<0, 280, 260>>)>>,
     <<Some(<<370, 9999, 400>>), Some(<<335, 355, 345>>), Some(<<305, 325, 315>>),
       Some(<<285, 295, 290>>), Some(<<0, 275, 260>>)>>,
     <<Some(<<300, 320, 310>>), Null, Some(<<250, 350, 315>>),
       Some(<<250, 300, 290>>), Some(<<0, 260, 240>>)>>}

\* the rows of the JOIN: the laps with a pace and a distance above zero whose
\* activity starts between startDate and endDate + 'T23:59:59.999Z'
PaceLapRows(startDate, endDate) ==
    {l \in laps :
        /\ \E a \in activities :
               /\ a.activity_id = l.activity_id
               /\ StrLeq(startDate, a.start_time)
               /\ StrLeq(a.start_time, endDate \o <<SecPerDay - 1>>)
        /\ l.average_pace # Null
        /\ l.distance # Null
        /\ l.distance[1] > 0}

\* a scan that lets the last matching zone win
RECURSIVE PaceZoneFrom_last(_, _, _)
PaceZoneFrom_last(z, pace, bounds) ==
    IF z > 5 THEN 0
    ELSE LET later == PaceZoneFrom_last(z + 1, pace, bounds)
         IN  IF later # 0 THEN later
             ELSE IF bounds[z] # Null /\ pace >= bounds[z][1][1] /\ pace <= bounds[z][1][2]
                  THEN z ELSE 0

\* for (let z = 1; z <= 5; z++) { if (b && pace >= b.paceMin && pace <=
\* b.paceMax) { zone = z; break; } }, from zone z on
RECURSIVE PaceZoneFrom(_, _, _)
PaceZoneFrom(z, pace, bounds) ==
    IF z > 5 THEN 0
    ELSE IF bounds[z] # Null /\ pace >= bounds[z][1][1] /\ pace <= bounds[z][1][2]
         THEN z
         ELSE PaceZoneFrom(z + 1, pace, bounds)

RECURSIVE SumField(_, _)
SumField(S, field) ==
    IF S = {} THEN 0
    ELSE LET l == CHOOSE x \in S : TRUE
         IN  OrZero(l[field]) + SumField(S \ {l}, field)

\* list.length > 0 ? list.reduce((a, x) => a + x, 0) / list.length : null,
\* the list holding the non-null values of the field
PlainMean(S, field) ==
    LET present == {l \in S : l[field] # Null}
    IN  IF present = {} THEN Null
        ELSE Frac(SumField(present, field), Cardinality(present))

getPaceZoneStats(vdot, startDate, endDate, bounds) ==
    IF vdot <= 0
    THEN [fn |-> "getPaceZoneStats", vdot |-> vdot, startDate |-> startDate,
          endDate |-> endDate, bounds |-> bounds, threw |-> FALSE, result |-> <<>>]
    ELSE IF ~getDatabase
    THEN [fn |-> "getPaceZoneStats", vdot |-> vdot, startDate |-> startDate,
          endDate |-> endDate, bounds |-> bounds, threw |-> TRUE, result |-> <<>>]
    ELSE LET rows == PaceLapRows(startDate, endDate)
         IN  [fn |-> "getPaceZoneStats", vdot |-> vdot, startDate |-> startDate,
              endDate |-> endDate, bounds |-> bounds, threw |-> FALSE,
              result |-> [zone \in 1 .. 5 |->
                  LET inZone == {l \in rows :
                                    PaceZoneFrom(1, l.average_pace[1], bounds) = zone}
                      b == bounds[zone]
                  IN  [zone |-> zone,
                       target_pace_sec_per_km |-> IF b = Null THEN 0 ELSE b[1][3],
                       pace_min_sec_per_km |-> IF b = Null THEN 0 ELSE b[1][1],
                       pace_max_sec_per_km |-> IF b = Null THEN 0 ELSE b[1][2],
                       activity_count |-> Cardinality(inZone),
                       total_duration |-> SumField(inZone, "duration"),
                       total_distance |-> SumField(inZone, "distance"),
                       avg_pace |-> PlainMean(inZone, "average_pace"),
                       avg_cadence |-> PlainMean(inZone, "average_cadence"),
                       avg_stride_length |-> PlainMean(inZone, "average_stride_length"),
                       avg_heart_rate |-> PlainMean(inZone, "average_heart_rate")]]]

VdotSamples == {0, 45}

PaceZoneStatsQuery ==
    \E vdot \in VdotSamples, bounds \in PaceBoundSamples,
       s \in {<<2026, 1, 1>>, <<2026, 1, 4>>}, e \in {<<2026, 1, 5>>, <<2026, 1, 8>>} :
        /\ last = NoQuery
        /\ last' = getPaceZoneStats(vdot, s, e, bounds)
        /\ UNCHANGED <<now, activities, hrCache, vdotCache, dbFile, cacheTables, call,
                       laps, lapRowid, fitCache, downloads, run>>

NextPace == PaceZoneStatsQuery \/ Respond

SpecPace == InitRecords /\ [][NextPace]_vars

PaceServed == last.fn = "getPaceZoneStats" /\ last.vdot > 0 /\ ~last.threw

\* the laps of the window whose pace lies in the closed interval of zone z
\* and of no lower-numbered zone
LowestContaining(z) ==
    {l \in PaceLapRows(last.startDate, last.endDate) :
        /\ last.bounds[z] # Null
        /\ last.bounds[z][1][1] <= l.average_pace[1]
        /\ l.average_pace[1] <= last.bounds[z][1][2]
        /\ \A y \in 1 .. z - 1 :
               \/ last.bounds[y] = Null
               \/ l.average_pace[1] < last.bounds[y][1][1]
               \/ l.average_pace[1] > last.bounds[y][1][2]}

\* C17: each lap is counted in the lowest-numbered zone whose closed interval
\* [paceMin, paceMax] contains its average pace and in no other; a lap whose
\* pace is in no interval is counted nowhere, so the counts of the five zones
\* add up to at most the number of laps in the window.
C17_FirstMatchingZone ==
    PaceServed =>
        /\ \A z \in 1 .. 5 :
               /\ last.result[z].activity_count = Cardinality(LowestContaining(z))
               /\ last.result[z].total_duration = SumField(LowestContaining(z), "duration")
        /\ SumOver(last.result, "activity_count")
               <= Cardinality({l \in laps : \E a \in activities :
                      /\ a.activity_id = l.activity_id
                      /\ StrLeq(last.startDate, a.start_time)
                      /\ StrLeq(a.start_time, last.endDate \o <<SecPerDay - 1>>)})

\* a lap whose pace lies in the bands of two zones was counted in the
\* lower-numbered one, and a lap in the window was counted nowhere
C17_Witness ==
    /\ PaceServed
    /\ \E l \in PaceLapRows(last.startDate, last.endDate), z \in 1 .. 4 :
           /\ l \in LowestContaining(z)
           /\ last.result[z].activity_count >= 1
           /\ \E y \in z + 1 .. 5 :
                  /\ last.bounds[y] # Null
                  /\ last.bounds[y][1][1] <= l.average_pace[1]
                  /\ l.average_pace[1] <= last.bounds[y][1][2]
    /\ SumOver(last.result, "activity_count")
           < Cardinality(PaceLapRows(last.startDate, last.endDate))

----------------------------------------------------------------------------
(* GarminSync: sync runs against the Garmin list, the FIT cache and the      *)
(* database.  The records step of _syncActivity writes neither activities    *)
(* nor activity_laps and is left out.                                        *)

\* the activity ids that Garmin lists
MaxSyncIds == 3

\* the length of the list one run fetches; paging can list an activity twice
MaxListed == 2

\* the successful downloads logged
MaxDownloads == 4

\* what parseFitFile gives for the FIT file of an activity: the file of
\* activity 2 has no heart rate; odd ids have two laps, even ids one
FitFile(id) ==
    [activity |-> [start_time |-> toISOString([day |-> NowStart - id, sec |-> 43200]),
                   duration |-> Some(1500), distance |-> Some(5),
                   average_pace |-> Some(300), average_cadence |-> Null,
                   average_stride_length |-> Null,
                   average_heart_rate |-> IF id = 2 THEN Null ELSE Some(140 + id)],
     max_heart_rate |-> IF id = 2 THEN Null ELSE Some(170),
     lapsData |-> IF id % 2 = 1
                  THEN <<LapData(3000, 900, Some(300), Some(140), Null, Null),
                         LapData(2000, 600, Some(300), Some(150), Null, Null)>>
                  ELSE <<LapData(5000, 1500, Some(300), Some(145), Null, Null)>>]

\* hasHeartRate of _syncActivity (no record carries a heart rate)
hasHeartRate(fit) ==
    \/ fit.activity.average_heart_rate # Null /\ fit.activity.average_heart_rate[1] > 0
    \/ fit.max_heart_rate # Null /\ fit.max_heart_rate[1] > 0

RECURSIVE ListsOfLen(_)
ListsOfLen(n) ==
    IF n = 0 THEN {<<>>}
    ELSE {Append(l, id) : l \in ListsOfLen(n - 1), id \in 1 .. MaxSyncIds}

\* results of _fetchAllActivities
GarminLists == UNION {ListsOfLen(n) : n \in 1 .. MaxListed}

getAllActivityIds == {a.activity_id : a \in activities}

\* a filter that keeps every listed activity
NewActivities_all(allActivities, existingIds) == allActivities

\* allActivities.filter(act => !existingIds.has(act.activityId))
NewActivities(allActivities, existingIds) ==
    LET IsNew(id) == id \notin existingIds
    IN  SelectSeq(allActivities, IsNew)

\* a cache read that always misses
CacheHit_never(cache, id) == FALSE

\* fs.readFile(cachePath) succeeds
CacheHit(cache, id) == id \in cache

Idle == <<>>

\* syncAll up to its loop: the ids stored are read, the list is fetched and
\* filtered; the DatabaseManager creates the file and the activities table
StartSync ==
    \E listed \in GarminLists, withLaps \in BOOLEAN :
        LET existingIds   == getAllActivityIds
            newActivities == NewActivities(listed, existingIds)
        IN  /\ run = Idle
            /\ dbFile' = TRUE
            /\ run' = IF newActivities = <<>> THEN Idle
                      ELSE [existingIds |-> existingIds, queue |-> newActivities,
                            withLaps |-> withLaps, result |-> Null]
            /\ UNCHANGED <<now, activities, hrCache, vdotCache, cacheTables, last, call,
                           laps, lapRowid, fitCache, downloads>>

\* one iteration of the loop: _syncActivity for the next new activity.  A
\* download that fails or returns nothing leaves everything as it was.
SyncNext ==
    /\ run # Idle
    /\ run.queue # <<>>
    /\ LET id  == Head(run.queue)
           fit == FitFile(id)
           Done(result) == [run EXCEPT !.queue = Tail(@),
                                       !.result = Some([id |-> id] @@ result)]
       IN  \E source \in IF CacheHit(fitCache, id) THEN {"cache"} ELSE {"remote", "failed"} :
               IF source = "failed"
               THEN /\ run' = Done([success |-> FALSE, skipped |-> FALSE])
                    /\ UNCHANGED <<activities, laps, lapRowid, fitCache, downloads>>
               ELSE /\ source = "remote" => Len(downloads) < MaxDownloads
                    /\ fitCache' = fitCache \cup {id}
                    /\ downloads' = IF source = "remote" THEN Append(downloads, id)
                                    ELSE downloads
                    /\ IF ~hasHeartRate(fit)
                       THEN /\ run' = Done([success |-> FALSE, skipped |-> TRUE])
                            /\ UNCHANGED <<activities, laps, lapRowid>>
                       ELSE /\ run' = Done([success |-> TRUE, skipped |-> FALSE,
                                            fromCache |-> source = "cache"])
                            /\ activities' = upsertActivity(activities,
                                                 ActivityRow(id, fit.activity))
                            /\ IF run.withLaps /\ Len(fit.lapsData) > 0
                               THEN /\ laps' = insertLaps(laps, lapRowid, id, fit.lapsData)
                                    /\ lapRowid' = lapRowid + Len(fit.lapsData)
                               ELSE UNCHANGED <<laps, lapRowid>>
    /\ UNCHANGED <<now, hrCache, vdotCache, dbFile, cacheTables, last, call>>

\* the loop is over and syncAll returns
EndSync ==
    /\ run # Idle
    /\ run.queue = <<>>
    /\ run' = Idle
    /\ UNCHANGED <<now, activities, hrCache, vdotCache, dbFile, cacheTables, last, call,
                   laps, lapRowid, fitCache, downloads>>

NextSync == StartSync \/ SyncNext \/ EndSync

SpecSync == Init /\ [][NextSync]_vars

----------------------------------------------------------------------------
(* Claims about ingest, checked under SpecSync *)

\* the columns of lap rows, without the row id
LapContent(rows) ==
    {[activity_id |-> l.activity_id, lap_index |-> l.lap_index,
      distance |-> l.distance, duration |-> l.duration,
      average_pace |-> l.average_pace, average_heart_rate |-> l.average_heart_rate,
      average_cadence |-> l.average_cadence,
      average_stride_length |-> l.average_stride_length] : l \in rows}

\* a step of the loop in which the next activity was ingested
Ingested ==
    /\ run # Idle
    /\ run.queue # <<>>
    /\ run' # Idle
    /\ run'.queue = Tail(run.queue)
    /\ run'.result # Null
    /\ run'.result[1].success

\* C18: when an activity is ingested, afterwards its stored laps are exactly
\* the laps of that ingest, none of an earlier ingest remaining, and the laps
\* of the other activities are as they were.
C18_LapsReplacedAsSet ==
    [][Ingested =>
          LET id    == Head(run.queue)
              saved == IF run.withLaps THEN FitFile(id).lapsData ELSE <<>>
          IN  /\ Cardinality({l \in laps' : l.activity_id = id}) = Len(saved)
              /\ LapContent({l \in laps' : l.activity_id = id})
                     = LapContent(LapRows(id, saved, 0))
              /\ {l \in laps' : l.activity_id # id} = {l \in laps : l.activity_id # id}
      ]_vars

\* an activity listed twice has been ingested a second time, its laps stored,
\* while another activity has laps
C18_Witness ==
    /\ run # Idle
    /\ run.result # Null
    /\ run.result[1].success
    /\ run.result[1].fromCache
    /\ run.withLaps
    /\ \E l \in laps : l.activity_id = run.result[1].id
    /\ \E l \in laps : l.activity_id # run.result[1].id

----------------------------------------------------------------------------
(* Claims about the returned lists of the HybridResolver, checked under Spec *)

\* the key of a returned row: (period, zone) for getHrZoneStats, the period
\* for getVDOTTrend
RowKey(row) ==
    IF last.fn = "getHrZoneStats" THEN <<row.period, row.hr_zone>> ELSE <<row.period>>

\* C21: the list getHrZoneStats returns holds at most one row per (period,
\* zone) and the list getVDOTTrend returns at most one row per period, on
\* every route.
C21_OneRowPerKey ==
    (last.fn \in Queries /\ ~last.threw) =>
        \A i, j \in 1 .. Len(last.result) :
            i # j => RowKey(last.result[i]) # RowKey(last.result[j])

----------------------------------------------------------------------------
(* Live rollups up to an end date on which activities started: the tables of *)
(* InitAgg, queried with the end date 2026-01-06                              *)

QueryToEndDate ==
    \/ HrZoneStatsQuery({<<>>, <<2026, 1, 2>>}, {<<2026, 1, 6>>})
    \/ VDOTTrendQuery({<<>>, <<2026, 1, 2>>}, {<<2026, 1, 6>>})

SpecEnd == InitAgg /\ [][QueryToEndDate \/ Respond]_vars

\* the calendar date of a stored start time
DateOf(startTime) == SubSeq(startTime, 1, 3)

\* the activities a live rollup is made of: those with an average heart rate
\* above zero for the zones, those with a fitness value for the trend
Eligible(a) ==
    IF last.fn = "getHrZoneStats"
    THEN a.average_heart_rate # Null /\ a.average_heart_rate[1] > 0
    ELSE a.vdot_value # Null

\* the eligible activities that started from the start of the live range up
\* to the end date, the end date itself included
StartedByEndDate ==
    {a \in activities :
        /\ Eligible(a)
        /\ LiveStart = <<>> \/ StrLeq(LiveStart, a.start_time)
        /\ StrLeq(DateOf(a.start_time), last.params.endDate)}

\* C22: with a date-only endDate the live rollups count every eligible
\* activity that started within the range, those that started on the end
\* date itself included.
C22_EndDateIncluded ==
    (last.fn \in Queries /\ last.route # "cache" /\ ~last.threw
        /\ last.params.endDate # <<>>) =>
        SumOver(last.realtime, "activity_count") = Cardinality(StartedByEndDate)

----------------------------------------------------------------------------
(* Sync runs in which writing the laps can fail.  upsertActivity and         *)
(* insertLaps are separate statements outside any common transaction; when   *)
(* insertLaps throws, the exception leaves _syncActivity and is caught by    *)
(* the loop of syncAll, which goes on with the next activity.                *)

\* one iteration of the loop in which insertLaps throws after upsertActivity
\* has written the row: the DELETE of insertLaps has run or not, the inserts
\* are rolled back
SyncNextThrows ==
    /\ run # Idle
    /\ run.queue # <<>>
    /\ LET id  == Head(run.queue)
           fit == FitFile(id)
       IN  /\ hasHeartRate(fit)
           /\ run.withLaps
           /\ Len(fit.lapsData) > 0
           /\ \E source \in IF CacheHit(fitCache, id) THEN {"cache"} ELSE {"remote"},
                 deleted \in BOOLEAN :
                 /\ source = "remote" => Len(downloads) < MaxDownloads
                 /\ fitCache' = fitCache \cup {id}
                 /\ downloads' = IF source = "remote" THEN Append(downloads, id)
                                 ELSE downloads
                 /\ activities' = upsertActivity(activities, ActivityRow(id, fit.activity))
                 /\ laps' = IF deleted THEN {l \in laps : l.activity_id # id} ELSE laps
                 /\ run' = [run EXCEPT !.queue = Tail(@),
                                       !.result = Some([id |-> id, success |-> FALSE,
                                                        skipped |-> FALSE, threw |-> TRUE])]
    /\ UNCHANGED <<now, hrCache, vdotCache, dbFile, cacheTables, last, call, lapRowid>>

\* sync runs keep being started and each run goes on to its end
SpecFault ==
    /\ Init
    /\ [][StartSync \/ SyncNext \/ SyncNextThrows \/ EndSync]_vars
    /\ WF_vars(StartSync)
    /\ WF_vars(SyncNext \/ EndSync)

\* the activity whose ingest threw in the last iteration
ThrewOn(id) ==
    /\ run # Idle
    /\ run.result = Some([id |-> id, success |-> FALSE, skipped |-> FALSE, threw |-> TRUE])

\* the activity is stored and so are all the laps of its FIT file
LapsComplete(id) ==
    /\ id \in getAllActivityIds
    /\ LapContent({l \in laps : l.activity_id = id})
           = LapContent(LapRows(id, FitFile(id).lapsData, 0))

\* C23: when writing the laps of an activity fails after its row was
\* written, then either the row is not kept or a later run stores the laps:
\* the activity does not stay stored without its laps.
C23_NoActivityLeftWithoutLaps ==
    \A id \in 1 .. MaxSyncIds :
        ThrewOn(id) ~> (id \notin getAllActivityIds \/ LapsComplete(id))

----------------------------------------------------------------------------
(* Claims about the means of a live rollup, checked under SpecFold *)

MeanFields ==
    {<<"avg_pace", "average_pace">>, <<"avg_cadence", "average_cadence">>,
     <<"avg_stride_length", "average_stride_length">>}

\* the non-zero samples of a field that an activity can carry
NonZeroSamples(field) ==
    {a[field][1] : a \in {b \in FoldSamples : Truthy(b[field])}}

\* lo <= mean <= hi for a mean held as a fraction
MeanWithin(mean, lo, hi) ==
    /\ lo * mean[2] <= mean[1]
    /\ mean[1] <= hi * mean[2]

\* C24: each of avg_pace, avg_cadence and avg_stride_length of a live rollup
\* is null or the arithmetic mean of the non-zero samples folded into it.  A
\* rollup whose mean was still null has folded no non-zero sample, so after
\* the first non-zero sample the mean is that sample; and at any time the
\* mean lies between the smallest and the largest non-zero sample.
C24_MeanOfNonZeroSamples ==
    call.fn = "fold" =>
        \A f \in MeanFields :
            LET before == call.before[f[1]]
                after  == call.after[f[1]]
                sample == call.activity[f[2]]
            IN  /\ (before = Null /\ Truthy(sample)) => after = Frac(sample[1], 1)
                /\ after # Null =>
                       \E lo, hi \in NonZeroSamples(f[2]) : MeanWithin(after, lo, hi)

----------------------------------------------------------------------------
(* The BPM ranges shown for the heart-rate zones *)

\* p(x) = Math.round((x / 100) * maxHr)
RoundedPercentOf(x, maxHr) == MathRound(x * maxHr, 100)

\* buildZoneRanges, and the same table in the hr-zones route
buildZoneRanges(maxHr) ==
    <<[min |-> 1, max |-> RoundedPercentOf(70, maxHr) - 1],
      [min |-> RoundedPercentOf(70, maxHr), max |-> RoundedPercentOf(80, maxHr) - 1],
      [min |-> RoundedPercentOf(80, maxHr), max |-> RoundedPercentOf(87, maxHr) - 1],
      [min |-> RoundedPercentOf(87, maxHr), max |-> RoundedPercentOf(93, maxHr) - 1],
      [min |-> RoundedPercentOf(93, maxHr), max |-> maxHr]>>

\* the page shows the ranges next to rollups whose zone getHrZone assigned to
\* an average heart rate
ShowZoneRanges ==
    \E maxHr \in MaxHrSamples, avgHr \in 1 .. HrTop :
        /\ call = NoCall
        /\ avgHr <= maxHr
        /\ call' = [fn |-> "zoneRanges", maxHr |-> maxHr, avgHr |-> avgHr,
                    zoneRanges |-> buildZoneRanges(maxHr),
                    hrZone |-> getHrZone(avgHr, maxHr)]
        /\ UNCHANGED <<now, activities, hrCache, vdotCache, dbFile, cacheTables, last, laps, lapRowid, fitCache, downloads, run>>

SpecRanges == InitFn /\ [][ShowZoneRanges]_vars

\* C25: for every heart rate h in 1 .. maxHr the zone whose displayed range
\* contains h is the zone getHrZone assigns to h, and the five ranges are
\* contiguous and do not overlap over 1 .. maxHr.
C25_RangesMatchClassifier ==
    call.fn = "zoneRanges" =>
        /\ {z \in 1 .. 5 : /\ call.zoneRanges[z].min <= call.avgHr
                           /\ call.avgHr <= call.zoneRanges[z].max} = {call.hrZone}
        /\ call.zoneRanges[1].min = 1
        /\ call.zoneRanges[5].max = call.maxHr
        /\ \A z \in 1 .. 4 : call.zoneRanges[z + 1].min = call.zoneRanges[z].max + 1

----------------------------------------------------------------------------
(* getStats: the totals of a period.  activities.distance is in kilometres.  *)
(* The clock stands at 2026-01-08T00:00Z and the process runs in UTC.        *)

\* the number of rows a table holds at most
MaxStatActivities == 2

RECURSIVE SumOfRows(_, _)
SumOfRows(S, field) ==
    IF S = {} THEN 0
    ELSE LET a == CHOOSE x \in S : TRUE
         IN  OrZero(a[field]) + SumOfRows(S \ {a}, field)

\* getStats: WHERE start_time >= startDate.toISOString() unless the period
\* is 'total'; COUNT(*), SUM(distance), SUM(duration); and
\* totalDistance = rawDistance < 1000 ? rawDistance * 1000 : rawDistance
getStats(period) ==
    LET ymd == Civil(now)
        startDate == CASE period = "week"  -> now - 7
                       [] period = "month" -> DateUTC(ymd[1], ymd[2], 1)
                       [] OTHER            -> DateUTC(ymd[1], 1, 1)
        startStr == toISOString([day |-> startDate, sec |-> 0])
        rows == IF period = "total" THEN activities
                ELSE {a \in activities : StrLeq(startStr, a.start_time)}
        rawDistance == SumOfRows(rows, "distance")
    IN  [fn |-> "getStats", period |-> period, rows |-> rows,
         totalActivities |-> Cardinality(rows),
         totalDistance |-> IF rawDistance < 1000 THEN rawDistance * 1000 ELSE rawDistance,
         totalDuration |-> SumOfRows(rows, "duration")]

\* the tables: runs of 5 and 42 km and rides of 480 and 520 km, started on
\* 2025-12-20 or on 2026-01-06
InitStats ==
    /\ now = NowStart
    /\ \E n \in 0 .. MaxStatActivities :
           \E f \in [1 .. n -> {5, 42, 480, 520} \X {Noon(2025, 12, 20), Noon(2026, 1, 6)}] :
               activities = {ActivityRow(i,
                   [start_time |-> f[i][2], duration |-> Some(60 * f[i][1]),
                    distance |-> Some(f[i][1]), average_pace |-> Null,
                    average_cadence |-> Null, average_stride_length |-> Null,
                    average_heart_rate |-> Null]) : i \in 1 .. n}
    /\ hrCache = {}
    /\ vdotCache = {}
    /\ dbFile = TRUE
    /\ cacheTables = TRUE
    /\ last = NoQuery
    /\ call = NoCall
    /\ laps = {}
    /\ lapRowid = 0
    /\ fitCache = {}
    /\ downloads = <<>>
    /\ run = <<>>

StatsQuery ==
    \E period \in {"week", "month", "year", "total"} :
        /\ last = NoQuery
        /\ last' = getStats(period)
        /\ UNCHANGED <<now, activities, hrCache, vdotCache, dbFile, cacheTables, call, laps, lapRowid, fitCache, downloads, run>>

SpecStats == InitStats /\ [][StatsQuery \/ Respond]_vars

\* C26: totalDistance is 1000 times the sum of the stored kilometre
\* distances of the activities in the period, whatever that sum is.
C26_TotalDistanceInMetres ==
    last.fn = "getStats" =>
        last.totalDistance = 1000 * SumOfRows(last.rows, "distance")

----------------------------------------------------------------------------
(* GarminClient._requestWithRefresh, one await at a time.  `call` follows    *)
(* the request: how often fn and refreshAccessToken were called, the error   *)
(* that fn threw first, and how the request ended.                           *)

\* the requests made one after the other
MaxRequests == 4

\* what fn() does: it returns, or it throws an error with a response status,
\* or one without a response
FnOutcomes == {"ok", "401", "403", "500", "network"}

\* a catch that refreshes on every error
ShouldRefresh_anyError(error) == TRUE

\* error.response && error.response.status === 401
ShouldRefresh(error) == error = "401"

\* lines 116-119 and 133: fn is awaited; when it throws, a 401 leads on to
\* the refresh and any other error is rethrown
TryRequest ==
    \E outcome \in FnOutcomes :
        LET request == IF call = NoCall THEN 1 ELSE call.request + 1
            tokens  == IF call = NoCall THEN 0 ELSE call.tokens
        IN  /\ call = NoCall \/ (call.fn = "_requestWithRefresh"
                                    /\ call.pc \in {"returned", "thrown"})
            /\ request <= MaxRequests
            /\ call' = [fn |-> "_requestWithRefresh", request |-> request,
                        tokens |-> tokens, attempts |-> 1, refreshes |-> 0,
                        refreshed |-> FALSE, persisted |-> FALSE,
                        error |-> IF outcome = "ok" THEN "none" ELSE outcome,
                        thrown |-> IF outcome = "ok" \/ ShouldRefresh(outcome)
                                   THEN "none" ELSE outcome,
                        pc |-> IF outcome = "ok" THEN "returned"
                               ELSE IF ShouldRefresh(outcome) THEN "refresh"
                               ELSE "thrown"]
            /\ UNCHANGED <<now, activities, hrCache, vdotCache, dbFile, cacheTables, last, laps, lapRowid, fitCache, downloads, run>>

\* lines 120-129 and 133: refreshAccessToken returns the new token, or null
\* when the token has no refresh_token or the token endpoint fails; the new
\* token is written to .env or not; without a token the error is rethrown
RefreshToken ==
    \E newToken \in BOOLEAN, persisted \in BOOLEAN :
        /\ call # NoCall
        /\ call.fn = "_requestWithRefresh"
        /\ call.pc = "refresh"
        /\ ~newToken => ~persisted
        /\ call' = [call EXCEPT
                       !.refreshes = @ + 1,
                       !.refreshed = newToken,
                       !.persisted = persisted,
                       !.tokens = IF newToken THEN @ + 1 ELSE @,
                       !.thrown = IF newToken THEN "none" ELSE call.error,
                       !.pc = IF newToken THEN "retry" ELSE "thrown"]
        /\ UNCHANGED <<now, activities, hrCache, vdotCache, dbFile, cacheTables, last, laps, lapRowid, fitCache, downloads, run>>

\* line 130: return await fn(), inside the catch block, so that what it
\* throws leaves _requestWithRefresh
RetryRequest ==
    \E outcome \in FnOutcomes :
        /\ call # NoCall
        /\ call.fn = "_requestWithRefresh"
        /\ call.pc = "retry"
        /\ call' = [call EXCEPT
                       !.attempts = @ + 1,
                       !.thrown = IF outcome = "ok" THEN "none" ELSE outcome,
                       !.pc = IF outcome = "ok" THEN "returned" ELSE "thrown"]
        /\ UNCHANGED <<now, activities, hrCache, vdotCache, dbFile, cacheTables, last, laps, lapRowid, fitCache, downloads, run>>

SpecRefresh == InitFn /\ [][TryRequest \/ RefreshToken \/ RetryRequest]_vars

\* C27: a request is attempted at most twice and the token refreshed at most
\* once; only a 401 leads to a refresh; the request is retried exactly once
\* and only after a successful refresh; when the refresh fails or the first
\* error is not a 401, the original error is rethrown without a retry.
C27_RefreshAndRetryOnce ==
    (call # NoCall /\ call.fn = "_requestWithRefresh") =>
        LET ended == call.pc \in {"returned", "thrown"}
        IN  /\ call.attempts <= 2
            /\ call.refreshes <= 1
            /\ call.refreshes = 1 => call.error = "401"
            /\ call.attempts = 2 => call.refreshed
            /\ (ended /\ call.refreshed) => call.attempts = 2
            /\ (ended /\ call.error = "401") => call.refreshes = 1
            /\ (ended /\ call.error \notin {"none", "401"}) =>
                   /\ call.pc = "thrown"
                   /\ call.thrown = call.error
                   /\ call.attempts = 1
                   /\ call.refreshes = 0
            /\ (ended /\ call.refreshes = 1 /\ ~call.refreshed) =>
                   /\ call.pc = "thrown"
                   /\ call.thrown = "401"
                   /\ call.attempts = 1

\* a request that met a 401 was retried after a successful refresh and
\* returned, after an earlier request had been rethrown without a retry
C27_Witness ==
    /\ call # NoCall
    /\ call.fn = "_requestWithRefresh"
    /\ call.request >= 2
    /\ call.pc = "returned"
    /\ call.error = "401"
    /\ call.refreshes = 1
    /\ call.attempts = 2

----------------------------------------------------------------------------
(* Stored query parameters served again as the days pass.  `call` keeps the  *)
(* parameters and how they were routed the time before.                      *)

\* a query is served: the first one with parameters of the caller's choice,
\* every later one with the same parameters
RunStoredQuery ==
    \E fn \in Queries, s \in StartDates, g \in GroupBys,
       e \in {<<>>, <<2025, 12, 30>>, <<2026, 1, 1>>, <<2026, 1, 2>>} :
        LET params == [startDate |-> s, endDate |-> e, groupBy |-> g]
        IN  /\ last = NoQuery
            /\ call # NoCall => (call.fn = fn /\ call.params = params /\ call.day < now)
            /\ last' = IF fn = "getHrZoneStats" THEN getHrZoneStats(params)
                       ELSE getVDOTTrend(params)
            /\ call' = [fn |-> fn, params |-> params, day |-> now,
                        route |-> last'.route,
                        before |-> IF call = NoCall THEN "none" ELSE call.route]
            /\ UNCHANGED <<now, activities, hrCache, vdotCache, dbFile, cacheTables, laps, lapRowid, fitCache, downloads, run>>

SpecClock == InitFn /\ [][RunStoredQuery \/ Respond \/ Tick]_vars

\* C28: for fixed parameters, a query once served from the cache alone is
\* served from the cache alone at every later time; and a query with an
\* endDate is served from the cache alone once more than 7 days have passed
\* after that endDate.
C28_RoutingMovesToCache ==
    (call # NoCall /\ call.fn \in Queries) =>
        /\ call.before = "cache" => call.route = "cache"
        /\ (call.params.endDate # <<>> /\ call.day - DayOf(call.params.endDate) > 7) =>
               call.route = "cache"

\* a query that was served live or from both sources is served from the
\* cache alone a day later
C28_Witness ==
    /\ call # NoCall
    /\ call.fn \in Queries
    /\ call.before \in {"realtime", "hybrid"}
    /\ call.route = "cache"
    /\ last # NoQuery
    /\ last.called = {"cache"}

----------------------------------------------------------------------------
(* Claims about the records of one window, checked under SpecRecords *)

\* C29: within one window, for target distances d1 < d2, a record for d2
\* comes with a record for d1 whose duration is not longer.
C29_RecordsGrowWithDistance ==
    RecordsServed =>
        \A i, j \in 1 .. Len(last.records) :
            (PR_DISTANCES[i] < PR_DISTANCES[j]
                /\ last.records[j].durationSeconds # Null) =>
                /\ last.records[i].durationSeconds # Null
                /\ last.records[i].durationSeconds[1] <= last.records[j].durationSeconds[1]

\* the window holds a record over 10 km and one over 5 km that was achieved
\* in another activity, whose laps were walked for the shorter targets
C29_Witness ==
    /\ RecordsServed
    /\ last.records[4].durationSeconds # Null
    /\ last.records[3].durationSeconds # Null
    /\ last.records[3].achievedAt # last.records[4].achievedAt
    /\ last.records[1].achievedAt # last.records[4].achievedAt
    /\ last.records[1].durationSeconds[1] < last.records[3].durationSeconds[1]

----------------------------------------------------------------------------
(* syncAll followed from its call to its exit: the database handle that the  *)
(* DatabaseManager opened, the temporary directory, the counters and the     *)
(* value returned.  One run is followed; the list may be empty.              *)

\* a loop that lets an exception of _syncActivity through
AfterActivity_rethrow(outcome) == IF outcome = "threw" THEN "thrown" ELSE "loop"

\* where syncAll stands after an iteration of its loop: the try/catch of
\* lines 212-233 takes every outcome of _syncActivity
AfterActivity(outcome) == "loop"

\* syncAll up to its loop: checkAuth, the stored ids, the list, the filter
\* and mkdtemp.  A failed step throws, and the early return and the throw
\* both pass the finally that closes the database.
SyncAllStart ==
    \E listed \in GarminLists \cup {<<>>}, withLaps \in BOOLEAN,
       step \in {"checkAuth", "fetch", "mkdtemp", "ok"} :
        LET existingIds   == getAllActivityIds
            newActivities == NewActivities(listed, existingIds)
            frame == [existingIds |-> existingIds, withLaps |-> withLaps,
                      result |-> Null, attempted |-> 0, successCount |-> 0]
        IN  /\ run = Idle
            /\ dbFile' = TRUE
            /\ run' = IF step = "checkAuth" \/ step = "fetch"
                         \/ (step = "mkdtemp" /\ newActivities # <<>>)
                      THEN frame @@ [pc |-> "thrown", queue |-> <<>>, total |-> 0,
                                     tempDir |-> FALSE, dbOpen |-> FALSE, returned |-> Null]
                      ELSE IF newActivities = <<>>
                      THEN frame @@ [pc |-> "returned", queue |-> <<>>, total |-> 0,
                                     tempDir |-> FALSE, dbOpen |-> FALSE,
                                     returned |-> Some([success |-> TRUE, synced |-> 0,
                                                        total |-> Len(listed)])]
                      ELSE frame @@ [pc |-> "loop", queue |-> newActivities,
                                     total |-> Len(newActivities),
                                     tempDir |-> TRUE, dbOpen |-> TRUE, returned |-> Null]
            /\ UNCHANGED <<now, activities, hrCache, vdotCache, cacheTables, last, call,
                           laps, lapRowid, fitCache, downloads>>

\* one iteration of the loop: _syncActivity reads the FIT file from the cache
\* or downloads it; the download fails, the activity is skipped for want of
\* a heart rate, it is stored, or a write throws after the row was stored
SyncAllIteration ==
    /\ run # Idle
    /\ run.pc = "loop"
    /\ run.queue # <<>>
    /\ LET id  == Head(run.queue)
           fit == FitFile(id)
           got == IF CacheHit(fitCache, id) THEN {"cache"} ELSE {"remote"}
       IN  \E outcome \in {"failed", "skipped", "success", "threw"}, source \in got :
               LET pc == AfterActivity(outcome)
               IN  /\ outcome = "failed" => source = "remote"
                   /\ outcome = "skipped" => ~hasHeartRate(fit)
                   /\ outcome \in {"success", "threw"} => hasHeartRate(fit)
                   /\ (outcome # "failed" /\ source = "remote") => Len(downloads) < MaxDownloads
                   /\ fitCache' = IF outcome = "failed" THEN fitCache ELSE fitCache \cup {id}
                   /\ downloads' = IF outcome # "failed" /\ source = "remote"
                                   THEN Append(downloads, id) ELSE downloads
                   /\ activities' = IF outcome \in {"success", "threw"}
                                    THEN upsertActivity(activities, ActivityRow(id, fit.activity))
                                    ELSE activities
                   /\ IF outcome = "success" /\ run.withLaps /\ Len(fit.lapsData) > 0
                      THEN /\ laps' = insertLaps(laps, lapRowid, id, fit.lapsData)
                           /\ lapRowid' = lapRowid + Len(fit.lapsData)
                      ELSE UNCHANGED <<laps, lapRowid>>
                   /\ run' = [run EXCEPT
                                 !.queue = Tail(@),
                                 !.attempted = @ + 1,
                                 !.successCount = IF outcome = "success" THEN @ + 1 ELSE @,
                                 !.result = Some([id |-> id, outcome |-> outcome]),
                                 !.pc = pc,
                                 !.tempDir = pc = "loop",
                                 !.dbOpen = pc = "loop"]
    /\ UNCHANGED <<now, hrCache, vdotCache, dbFile, cacheTables, last, call>>

\* the loop is over: syncAll returns through the finally that removes the
\* temporary directory and the finally that closes the database
SyncAllReturn ==
    /\ run # Idle
    /\ run.pc = "loop"
    /\ run.queue = <<>>
    /\ run' = [run EXCEPT
                  !.pc = "returned",
                  !.tempDir = FALSE,
                  !.dbOpen = FALSE,
                  !.returned = Some([success |-> TRUE, synced |-> run.successCount,
                                     total |-> run.total])]
    /\ UNCHANGED <<now, activities, hrCache, vdotCache, dbFile, cacheTables, last, call,
                   laps, lapRowid, fitCache, downloads>>

SpecRun == Init /\ [][SyncAllStart \/ SyncAllIteration \/ SyncAllReturn]_vars

\* C30: a failure while syncing one activity does not stop the run: the run
\* throws only before its loop, it returns after every new activity was
\* attempted, with success and synced <= total, and on every exit the
\* database handle is closed and the temporary directory removed.
C30_RunSurvivesFailures ==
    run # Idle =>
        /\ run.pc = "loop" =>
               /\ run.dbOpen
               /\ run.tempDir
               /\ run.attempted + Len(run.queue) = run.total
        /\ run.pc = "thrown" => run.attempted = 0
        /\ run.pc = "returned" =>
               /\ run.queue = <<>>
               /\ run.attempted = run.total
               /\ run.returned # Null
               /\ run.returned[1].success
               /\ run.returned[1].synced = run.successCount
               /\ run.returned[1].synced <= run.returned[1].total
        /\ run.pc \in {"returned", "thrown"} => (~run.dbOpen /\ ~run.tempDir)

\* a run has returned in which an activity was stored after another one had
\* thrown, failed or been skipped
C30_Witness ==
    /\ run # Idle
    /\ run.pc = "returned"
    /\ run.total >= 2
    /\ run.result # Null
    /\ run.result[1].outcome = "success"
    /\ run.successCount < run.total

=============================================================================
